---------------------------- MODULE Spec2Model ----------------------------
(***************************************************************************)
(* Carbon-credit marketplace backend: the in-memory Database (accounts and *)
(* listings), the PBFT quorum gate, the hash-chained Blockchain and the    *)
(* HTTP request handlers of the server that tie them together.             *)
(*                                                                         *)
(* Two copies of the server exist in the repository:                       *)
(*   version 1  src/backend/server.js                                      *)
(*   version 2  src/backend/pbft.js lines 97-363                           *)
(* They differ in the field-presence test of POST /api/list-credit and in  *)
(* some exception handling.  `version` is fixed at start-up.               *)
(*                                                                         *)
(* Node runs every handler to completion on one thread and the quorum gate *)
(* calls its callback synchronously, so each handler is one atomic action. *)
(*                                                                         *)
(* Abstractions: listing ids (uuid v4) are fresh integers 1, 2, ...;       *)
(* wall-clock timestamps are replaced by the creation sequence number;     *)
(* quantities and prices are integers; request bodies carry JSON numbers   *)
(* or null for amount and price, on which parseFloat returns the number.   *)
(***************************************************************************)
EXTENDS Integers, Sequences, FiniteSets, TLC

VARIABLES
    version,    \* which copy of the server is running (1 or 2)
    users,      \* Database.users     : username -> [password, role, balance]
    listings,   \* Database.listings  : id -> listing record
    chain,      \* Blockchain.chain   : sequence of blocks, genesis first
    nextId,     \* next fresh listing id (stands for uuidv4())
    res,        \* the HTTP response of the request handled last
    hist,       \* history: id -> the issuance request and what became of it
    gate,       \* the quorum gate's position when run step by step
    clients,    \* the attached WebSocket clients, in the order they were added
    outbox,     \* client -> the messages sent to it by the handler that ran last
    pc,         \* the position of the list-credit handler when run step by step
    frontend    \* the browser client: its socket, reconnect counter and timer

vars == <<version, users, listings, chain, nextId, res, hist, gate, clients,
          outbox, pc, frontend>>

(***************************************************************************)
(* Bounds and input samples                                                *)
(***************************************************************************)
MaxListings == 2

ReqBuyers == {"", "buyer1", "seller2"}
\* <<username, password, role>> of the registration requests tried: each
\* field missing, an existing name, an invalid role, and a new seller
RegisterRequests ==
    { <<"", "password123", "seller">>, <<"seller2", "", "seller">>,
      <<"seller2", "password123", "">>, <<"seller1", "password123", "buyer">>,
      <<"seller2", "password123", "admin">>, <<"seller2", "password123", "seller">> }
\* <<username, password>> of the login requests tried
LoginRequests ==
    { <<"", "password123">>, <<"seller1", "password123">>, <<"seller1", "wrong">>,
      <<"seller2", "password123">> }

\* A JSON value of a numeric request field: null, or a number.
Null == [null |-> TRUE, v |-> 0]
Num(n) == [null |-> FALSE, v |-> n]
\* (amount, price) pairs of the list-credit request bodies tried: each field
\* missing, zero, negative and positive
ReqOffers ==
    { <<Null, Num(1)>>, <<Num(2), Null>>, <<Num(0), Num(1)>>,
      <<Num(-1), Num(1)>>, <<Num(2), Num(1)>> }
\* <<username, amount, price>> of the list-credit requests tried: no username,
\* a buyer, a second seller name, and every offer by seller1
ListRequests ==
    { <<"", Num(2), Num(1)>>, <<"buyer1", Num(2), Num(1)>>,
      <<"seller2", Num(2), Num(1)>> }
    \cup { <<"seller1", o[1], o[2]>> : o \in ReqOffers }
\* A listing id in a request: 0 stands for a missing (falsy) id.
ReqListingIds == 0..MaxListings

\* Usernames asked for on GET /api/user/:username: two accounts and a stranger
ReqUsernames == {"seller1", "buyer1", "nobody"}

(***************************************************************************)
(* JavaScript helpers                                                      *)
(***************************************************************************)
\* !x for a string field: undefined and "" are both falsy
FalsyStr(s) == s = ""
\* !x for a numeric JSON field: null and 0 are falsy
FalsyNum(x) == x.null \/ x.v = 0
\* x == null
IsNull(x) == x.null
\* parseFloat of a JSON number
parseFloat(x) == x.v


(***************************************************************************)
(* Database (src/backend/database.js)                                      *)
(***************************************************************************)
User(password, role) == [password |-> password, role |-> role, balance |-> 0]

\* constructor + initializeTestData
initializeTestData ==
    [u \in {"seller1", "buyer1"} |->
        IF u = "seller1" THEN User("password123", "seller")
                         ELSE User("password123", "buyer")]

Has(map, key) == key \in DOMAIN map

\* Map.set(key, value)
MapSet(map, key, value) ==
    [k \in DOMAIN map \cup {key} |-> IF k = key THEN value ELSE map[k]]

\* Mutant of MapDelete: the entry stays
MapDeleteNoop(map, key) == map

\* Mutant of MapDelete: every entry is removed (Map.clear())
MapClear(map, key) == [k \in {} |-> map[k]]

\* Map.delete(key)
MapDelete(map, key) == [k \in DOMAIN map \ {key} |-> map[k]]

\* Mutant of registerUser: the test for an existing username is missing
registerUserOverwrites(us, username, password, role) ==
    IF role \notin {"buyer", "seller"}
    THEN [success |-> FALSE, message |-> "Invalid role", users |-> us]
    ELSE [success |-> TRUE, message |-> "User registered successfully",
          users |-> MapSet(us, username, User(password, role))]

\* registerUser: the result object and the users map afterwards
registerUser(us, username, password, role) ==
    IF Has(us, username)
    THEN [success |-> FALSE, message |-> "Username already exists", users |-> us]
    ELSE IF role \notin {"buyer", "seller"}
    THEN [success |-> FALSE, message |-> "Invalid role", users |-> us]
    ELSE [success |-> TRUE, message |-> "User registered successfully",
          users |-> MapSet(us, username, User(password, role))]

\* authenticateUser: TRUE iff a user object is returned
authenticateUser(us, username, password) ==
    Has(us, username) /\ us[username].password = password

\* updateUserBalance: the users map afterwards
updateUserBalance(us, username, amount) ==
    IF Has(us, username)
    THEN [us EXCEPT ![username].balance = @ + amount]
    ELSE us

\* createListing: the new listing object (id stands for uuidv4())
createListing(id, seller, amount, price) ==
    [id |-> id, seller |-> seller, amount |-> parseFloat(amount),
     price |-> parseFloat(price), status |-> "pending", createdAt |-> id]

\* The projection getMarketplace applies to each verified listing
MarketEntry(l) ==
    [id |-> l.id, seller |-> l.seller, amount |-> l.amount,
     price |-> l.price, createdAt |-> l.createdAt]

\* Mutant of MarketUpTo: the status filter is missing
RECURSIVE MarketUpToUnfiltered(_, _)
MarketUpToUnfiltered(ls, n) ==
    IF n = 0 THEN <<>>
    ELSE LET rest == MarketUpToUnfiltered(ls, n - 1) IN
         IF Has(ls, n) THEN Append(rest, MarketEntry(ls[n])) ELSE rest

\* getMarketplace: Map iteration is in insertion order, i.e. by ascending id
RECURSIVE MarketUpTo(_, _)
MarketUpTo(ls, n) ==
    IF n = 0 THEN <<>>
    ELSE LET rest == MarketUpTo(ls, n - 1) IN
         IF Has(ls, n) /\ ls[n].status = "verified"
         THEN Append(rest, MarketEntry(ls[n]))
         ELSE rest

getMarketplace(ls) == MarketUpTo(ls, MaxListings + 1)

\* Mutant of verifyListing: the status is not set
verifyListingNoop(ls, listingId) == ls

\* verifyListing: the listings map afterwards
verifyListing(ls, listingId) ==
    IF Has(ls, listingId)
    THEN [ls EXCEPT ![listingId].status = "verified"]
    ELSE ls

\* verifyListing: the value returned
verifyListingReturns(ls, listingId) == Has(ls, listingId)

\* Mutant of purchaseBalances: both new balances are computed from the
\* balances read before the first update
purchaseBalancesLostUpdate(us, buyer, listing) ==
    [us EXCEPT ![listing.seller].balance = us[listing.seller].balance - listing.amount,
               ![buyer].balance = us[buyer].balance + listing.amount]

\* Mutant of purchaseBalances: the seller is debited, the buyer not credited
purchaseBalancesNoCredit(us, buyer, listing) ==
    updateUserBalance(us, listing.seller, 0 - listing.amount)

\* Mutant of purchaseBalances: the seller is not debited
purchaseBalancesNoDebit(us, buyer, listing) ==
    updateUserBalance(us, buyer, listing.amount)

\* The two balance updates of purchaseCredit
purchaseBalances(us, buyer, listing) ==
    updateUserBalance(updateUserBalance(us, listing.seller, 0 - listing.amount),
                      buyer, listing.amount)

\* The result object of a successful purchaseCredit
purchaseOk(us, ls, buyer, listingId, lsAfter) ==
    [success |-> TRUE, message |-> "",
     seller |-> ls[listingId].seller,
     amount |-> ls[listingId].amount,
     price |-> ls[listingId].price,
     users |-> purchaseBalances(us, buyer, ls[listingId]),
     listings |-> lsAfter]

\* The result object of a failed purchaseCredit
purchaseFail(us, ls, msg) ==
    [success |-> FALSE, message |-> msg, seller |-> "", amount |-> 0,
     price |-> 0, users |-> us, listings |-> ls]

\* Mutant of purchaseCredit: the listing is not deleted
purchaseCreditKeepsListing(us, ls, buyer, listingId) ==
    IF ~Has(ls, listingId) THEN purchaseFail(us, ls, "Listing not found")
    ELSE IF ls[listingId].status # "verified"
         THEN purchaseFail(us, ls, "Listing not available for purchase")
    ELSE IF ~Has(us, buyer) THEN purchaseFail(us, ls, "Buyer not found")
    ELSE purchaseOk(us, ls, buyer, listingId, ls)

\* Mutant of purchaseCredit: the buyer's existence is not tested
purchaseCreditNoBuyerCheck(us, ls, buyer, listingId) ==
    IF ~Has(ls, listingId) THEN purchaseFail(us, ls, "Listing not found")
    ELSE IF ls[listingId].status # "verified"
         THEN purchaseFail(us, ls, "Listing not available for purchase")
    ELSE purchaseOk(us, ls, buyer, listingId, MapDelete(ls, listingId))

\* Mutant of purchaseCredit: the listing's status is not tested
purchaseCreditAnyStatus(us, ls, buyer, listingId) ==
    IF ~Has(ls, listingId) THEN purchaseFail(us, ls, "Listing not found")
    ELSE IF ~Has(us, buyer) THEN purchaseFail(us, ls, "Buyer not found")
    ELSE purchaseOk(us, ls, buyer, listingId, MapDelete(ls, listingId))

\* purchaseCredit: the result object, and the users and listings afterwards
purchaseCredit(us, ls, buyer, listingId) ==
    IF ~Has(ls, listingId) THEN purchaseFail(us, ls, "Listing not found")
    ELSE IF ls[listingId].status # "verified"
         THEN purchaseFail(us, ls, "Listing not available for purchase")
    ELSE IF ~Has(us, buyer) THEN purchaseFail(us, ls, "Buyer not found")
    ELSE purchaseOk(us, ls, buyer, listingId, MapDelete(ls, listingId))

(***************************************************************************)
(* Quorum gate (src/backend/pbft.js, class PBFT)                           *)
(***************************************************************************)
nodes == <<"node1", "node2", "node3", "node4">>

\* A vote vector is a function from 1..Len(nodes) to BOOLEAN: the value
\* simulateNodeVote / simulateNodeCommit (Math.random) returns for each node,
\* in forEach order.

\* Mutant of required: f + 1 votes are taken for a quorum
requiredWeak == (Len(nodes) - 1) \div 3 + 1

\* 2f + 1 with f = floor((n - 1) / 3)
required == ((Len(nodes) - 1) \div 3) * 2 + 1

\* nodes.forEach(node => { if (vote) count++ }) over the first n nodes
RECURSIVE CountYes(_, _)
CountYes(votes, n) ==
    IF n = 0 THEN 0
    ELSE CountYes(votes, n - 1) + (IF votes[n] THEN 1 ELSE 0)

collectPrepareMessages(votes) ==
    LET prepareCount == CountYes(votes, Len(nodes)) IN
    [prepared |-> prepareCount >= required, voteCount |-> prepareCount,
     required |-> required]

collectCommitMessages(votes) ==
    LET commitCount == CountYes(votes, Len(nodes)) IN
    [committed |-> commitCount >= required, voteCount |-> commitCount,
     required |-> required]

\* startConsensus: the object handed to the callback
startConsensus(pv, cv) ==
    IF collectPrepareMessages(pv).prepared
    THEN IF collectCommitMessages(cv).committed
         THEN [success |-> TRUE, error |-> ""]
         ELSE [success |-> FALSE, error |-> "Commit phase failed"]
    ELSE [success |-> FALSE, error |-> "Prepare phase failed"]

(***************************************************************************)
(* Ledger (require('./blockchain'); the file is not among the sources, so  *)
(* it is modelled from the design document's section 4.1)                  *)
(***************************************************************************)
HashMod == 64
Difficulty == 4

\* A stand-in for serialising the payload
PayloadCode(data) ==
    (IF data.type = "carbon_credit_listing" THEN 1
     ELSE IF data.type = "carbon_credit_purchase" THEN 2 ELSE 0)
    + 3 * data.listingId + 5 * (data.amount + 1) + 7 * (data.price + 1)

\* hash = digest(previousHash, payload, nonce)
Digest(previousHash, data, nonce) ==
    (31 * previousHash + 11 * PayloadCode(data) + nonce) % HashMod

\* the difficulty predicate
MeetsDifficulty(h) == h % Difficulty = 0

\* search increasing nonce values until the digest meets the difficulty
RECURSIVE Mine(_, _, _)
Mine(previousHash, data, nonce) ==
    IF MeetsDifficulty(Digest(previousHash, data, nonce)) THEN nonce
    ELSE Mine(previousHash, data, nonce + 1)

Block(index, previousHash, data) ==
    LET nonce == Mine(previousHash, data, 0) IN
    [index |-> index, data |-> data, previousHash |-> previousHash,
     hash |-> Digest(previousHash, data, nonce), nonce |-> nonce]

GenesisData ==
    [type |-> "genesis", listingId |-> 0, seller |-> "", buyer |-> "",
     amount |-> 0, price |-> 0, status |-> ""]

Genesis == Block(0, 0, GenesisData)

\* addBlock that does not link the new block to the last one
addBlockUnlinked(ch, data) ==
    Append(ch, Block(Len(ch), 0, data))

\* addBlock that writes the new block over the last one
addBlockOverLast(ch, data) ==
    IF Len(ch) = 1 THEN Append(ch, Block(Len(ch), ch[Len(ch)].hash, data))
    ELSE [ch EXCEPT ![Len(ch)] = Block(Len(ch) - 1, ch[Len(ch) - 1].hash, data)]

\* addBlock(data): the chain afterwards
addBlock(ch, data) ==
    Append(ch, Block(Len(ch), ch[Len(ch)].hash, data))

\* verify() reports no break
NoBreak == -1

\* the block at position k (from 1) has the hash its contents give and is
\* linked to the block before it; the first block is the genesis block
BlockIntact(ch, k) ==
    /\ ch[k].hash = Digest(ch[k].previousHash, ch[k].data, ch[k].nonce)
    /\ IF k = 1 THEN ch[k] = Genesis
                ELSE ch[k].previousHash = ch[k - 1].hash

RECURSIVE verifyFrom(_, _)
verifyFrom(ch, k) ==
    IF k > Len(ch) THEN NoBreak
    ELSE IF ~BlockIntact(ch, k) THEN ch[k].index
    ELSE verifyFrom(ch, k + 1)

\* verify(): the index of the first block at which integrity breaks, or none
verify(ch) == verifyFrom(ch, 1)

\* getChain(): the chain itself, oldest block first
getChain(ch) == ch

(***************************************************************************)
(* Request handlers (src/backend/server.js; src/backend/pbft.js 97-363)    *)
(***************************************************************************)
NoGate == "none"

\* Mutant of Reply: an aborted verification is reported as an error
ReplyAbortAsError(op, status, success, message, listingId, outcome) ==
    [op |-> op, status |-> IF outcome = "Aborted" THEN 500 ELSE status,
     success |-> success /\ outcome # "Aborted",
     message |-> IF outcome = "Aborted" THEN "Verification failed" ELSE message,
     listingId |-> listingId, gate |-> outcome, data |-> <<>>]

Reply(op, status, success, message, listingId, outcome) ==
    [op |-> op, status |-> status, success |-> success, message |-> message,
     listingId |-> listingId, gate |-> outcome, data |-> <<>>]

\* The reply of a read route: res.json(data) or res.status(404).json({message})
ReadReply(op, status, message, data) ==
    [op |-> op, status |-> status, success |-> status = 200, message |-> message,
     listingId |-> 0, gate |-> NoGate, data |-> data]

\* No decision was finished before
NoDecision == [votes |-> <<>>, result |-> "none", tx |-> 0]

\* frontend/app.js as loaded: no socket yet, reconnectAttempts = 0, no timer.
\* delay and elapsed describe the pending setTimeout in milliseconds; opens
\* and sinceOpen are history: the successful opens so far and the reconnects
\* scheduled since the last of them
PageLoaded == [ws |-> "none", reconnectAttempts |-> 0, delay |-> 0,
               elapsed |-> 0, opens |-> 0, sinceOpen |-> 0]

\* The gate at rest: no decision under way.  prepareMessages and
\* commitMessages are the two Maps the constructor creates; prev is history:
\* the votes, the result and the proposal of the decision finished last
GateIdle == [pc |-> "idle", tx |-> 0, i |-> 0, prepareCount |-> 0,
             commitCount |-> 0, log |-> <<>>, result |-> "none", callbacks |-> 0,
             prepareMessages |-> <<>>, commitMessages |-> <<>>,
             prev |-> NoDecision]

Init ==
    /\ version \in {1, 2}
    /\ users = initializeTestData
    /\ listings = <<>>
    /\ chain = <<Genesis>>
    /\ nextId = 1
    /\ res = Reply("none", 0, FALSE, "", 0, NoGate)
    /\ hist = <<>>
    /\ gate = GateIdle
    /\ clients = <<>>
    /\ outbox = <<>>
    /\ pc = "idle"
    /\ frontend = PageLoaded

\* POST /api/register
Register(username, password, role) ==
    /\ IF FalsyStr(username) \/ FalsyStr(password) \/ FalsyStr(role)
       THEN /\ res' = Reply("register", 400, FALSE, "All fields are required", 0, NoGate)
            /\ users' = users
       ELSE LET result == registerUser(users, username, password, role) IN
            /\ users' = result.users
            /\ res' = IF result.success
                      THEN Reply("register", 200, TRUE, "User registered successfully", 0, NoGate)
                      ELSE Reply("register", 400, FALSE, result.message, 0, NoGate)
    /\ UNCHANGED <<pc, frontend, clients, outbox, version, listings, chain, nextId, hist, gate>>

\* POST /api/login
Login(username, password) ==
    /\ res' = IF FalsyStr(username) \/ FalsyStr(password)
              THEN Reply("login", 400, FALSE, "Username and password are required", 0, NoGate)
              ELSE IF authenticateUser(users, username, password)
              THEN Reply("login", 200, TRUE, "", 0, NoGate)
              ELSE Reply("login", 401, FALSE, "Invalid credentials", 0, NoGate)
    /\ UNCHANGED <<pc, frontend, clients, outbox, version, users, listings, chain, nextId, hist, gate>>


\* The field-presence test of POST /api/list-credit
\*   version 1: !username || !amount || !price
\*   version 2: !username || amount == null || price == null
ListFieldsMissing(v, username, amount, price) ==
    IF v = 1
    THEN FalsyStr(username) \/ FalsyNum(amount) \/ FalsyNum(price)
    ELSE FalsyStr(username) \/ IsNull(amount) \/ IsNull(price)

\* Mutant of NotASeller: the role is not tested
NotAUser(us, username) == ~Has(us, username)

\* "Verify user exists and is seller"
NotASeller(us, username) ==
    ~Has(us, username) \/ us[username].role # "seller"

ListingPayload(listing, username, amount, price) ==
    [type |-> "carbon_credit_listing", listingId |-> listing.id,
     seller |-> username, buyer |-> "", amount |-> parseFloat(amount),
     price |-> parseFloat(price), status |-> "verified"]

\* Mutant of PurchasePayload: the buyer is recorded as the seller too
PurchasePayloadBuyerAsSeller(listingId, buyer, result) ==
    [type |-> "carbon_credit_purchase", listingId |-> listingId,
     seller |-> buyer, buyer |-> buyer, amount |-> result.amount,
     price |-> result.price, status |-> ""]

PurchasePayload(listingId, buyer, result) ==
    [type |-> "carbon_credit_purchase", listingId |-> listingId,
     seller |-> result.seller, buyer |-> buyer, amount |-> result.amount,
     price |-> result.price, status |-> ""]

\* Mutant of creditSeller: the balance is set to the amount, not raised by it
creditSellerOverwrite(us, username, amount) ==
    IF Has(us, username)
    THEN [us EXCEPT ![username].balance = parseFloat(amount)]
    ELSE us

\* The balance update of the consensus callback's success branch
creditSeller(us, username, amount) ==
    updateUserBalance(us, username, parseFloat(amount))

\* Mutant of markFailed: the status is not set
markFailedNoop(ls, listingId) == ls

\* The consensus callback's failure branch: mark the listing failed
markFailed(ls, listingId) ==
    IF Has(ls, listingId)
    THEN [ls EXCEPT ![listingId].status = "failed"]
    ELSE ls

\* Mutant of consensusCallback: the seller is credited whatever the gate said
consensusCallbackCreditsOnAbort(result, us, ls, ch, listing, username, amount, price) ==
    IF result.success
    THEN [chain |-> addBlock(ch, ListingPayload(listing, username, amount, price)),
          users |-> creditSeller(us, username, amount),
          listings |-> verifyListing(ls, listing.id)]
    ELSE [chain |-> ch, users |-> creditSeller(us, username, amount),
          listings |-> markFailed(ls, listing.id)]

\* Mutant of consensusCallback: a failed verification is recorded in the
\* chain as well
consensusCallbackRecordsAbort(result, us, ls, ch, listing, username, amount, price) ==
    [chain |-> addBlock(ch, ListingPayload(listing, username, amount, price)),
     users |-> IF result.success THEN creditSeller(us, username, amount) ELSE us,
     listings |-> IF result.success THEN verifyListing(ls, listing.id)
                                    ELSE markFailed(ls, listing.id)]

\* Mutant of consensusCallback: the success branch appends the block and
\* verifies the listing but does not credit the seller
consensusCallbackNoCredit(result, us, ls, ch, listing, username, amount, price) ==
    IF result.success
    THEN [chain |-> addBlock(ch, ListingPayload(listing, username, amount, price)),
          users |-> us,
          listings |-> verifyListing(ls, listing.id)]
    ELSE [chain |-> ch, users |-> us, listings |-> markFailed(ls, listing.id)]

\* The callback passed to pbft.startConsensus, applied to the gate's result:
\* the users, listings and chain afterwards
consensusCallback(result, us, ls, ch, listing, username, amount, price) ==
    IF result.success
    THEN [chain |-> addBlock(ch, ListingPayload(listing, username, amount, price)),
          users |-> creditSeller(us, username, amount),
          listings |-> verifyListing(ls, listing.id)]
    ELSE [chain |-> ch, users |-> us, listings |-> markFailed(ls, listing.id)]

Outcome(result) == IF result.success THEN "Committed" ELSE "Aborted"

\* The votes Math.random may produce, sampled at the threshold: the first k
\* nodes vote YES, for k one below the quorum and k equal to it
YesFirst(k) == [i \in 1..Len(nodes) |-> i <= k]
\* <<prepare votes, commit votes>>: quorum in both phases, a commit shortfall,
\* a prepare shortfall
VoteSamples ==
    { <<YesFirst(required), YesFirst(required)>>,
      <<YesFirst(required), YesFirst(required - 1)>>,
      <<YesFirst(required - 1), YesFirst(required)>> }

\* POST /api/list-credit
ListCredit(username, amount, price) ==
    /\ IF ListFieldsMissing(version, username, amount, price)
       THEN /\ res' = Reply("list", 400, FALSE, "All fields are required", 0, NoGate)
            /\ UNCHANGED <<users, listings, chain, nextId, hist>>
       ELSE IF NotASeller(users, username)
       THEN /\ res' = Reply("list", 400, FALSE, "Invalid user or not a seller", 0, NoGate)
            /\ UNCHANGED <<users, listings, chain, nextId, hist>>
       ELSE /\ nextId <= MaxListings
            /\ \E votes \in VoteSamples :
               LET listing == createListing(nextId, username, amount, price)
                   result == startConsensus(votes[1], votes[2])
                   after == consensusCallback(result, users,
                                MapSet(listings, listing.id, listing), chain,
                                listing, username, amount, price)
               IN  /\ users' = after.users
                   /\ listings' = after.listings
                   /\ chain' = after.chain
                   /\ hist' = MapSet(hist, listing.id,
                                [issuer |-> username, quantity |-> listing.amount,
                                 unitPrice |-> listing.price,
                                 outcome |-> Outcome(result),
                                 credits |-> IF result.success THEN 1 ELSE 0,
                                 purchases |-> 0, buyer |-> ""])
                   /\ res' = Reply("list", 200, TRUE,
                                "Carbon credit listed and undergoing verification",
                                listing.id, Outcome(result))
            /\ nextId' = nextId + 1
    /\ UNCHANGED <<pc, frontend, clients, outbox, version, gate>>

\* POST /api/buy-credit
BuyCredit(buyer, listingId) ==
    /\ IF FalsyStr(buyer) \/ listingId = 0
       THEN /\ res' = Reply("buy", 400, FALSE, "Buyer and listing ID are required", 0, NoGate)
            /\ UNCHANGED <<users, listings, chain, hist>>
       ELSE LET result == purchaseCredit(users, listings, buyer, listingId) IN
            /\ users' = result.users
            /\ listings' = result.listings
            /\ IF result.success
               THEN /\ chain' = addBlock(chain, PurchasePayload(listingId, buyer, result))
                    /\ hist' = [hist EXCEPT ![listingId].purchases = @ + 1,
                                                ![listingId].buyer = buyer]
                    /\ res' = Reply("buy", 200, TRUE, "Purchase successful", 0, NoGate)
               ELSE /\ res' = Reply("buy", 400, FALSE, result.message, 0, NoGate)
                    /\ UNCHANGED <<chain, hist>>
    /\ UNCHANGED <<pc, frontend, clients, outbox, version, nextId, gate>>

\* GET /api/marketplace
GetMarketplace ==
    /\ res' = ReadReply("marketplace", 200, "", getMarketplace(listings))
    /\ UNCHANGED <<pc, frontend, clients, outbox, version, users, listings, chain, nextId, hist, gate>>

\* GET /api/user/:username
GetUser(username) ==
    /\ IF Has(users, username)
       THEN res' = ReadReply("user", 200, "",
                      << [username |-> username,
                          role |-> users[username].role,
                          balance |-> users[username].balance] >>)
       ELSE res' = ReadReply("user", 404, "User not found", <<>>)
    /\ UNCHANGED <<pc, frontend, clients, outbox, version, users, listings, chain, nextId, hist, gate>>

\* GET /api/blockchain
GetBlockchain ==
    /\ res' = ReadReply("blockchain", 200, "", getChain(chain))
    /\ UNCHANGED <<pc, frontend, clients, outbox, version, users, listings, chain, nextId, hist, gate>>

Next ==
    \/ \E r \in RegisterRequests : Register(r[1], r[2], r[3])
    \/ \E r \in LoginRequests : Login(r[1], r[2])
    \/ \E r \in ListRequests : ListCredit(r[1], r[2], r[3])
    \/ \E b \in ReqBuyers, l \in ReqListingIds : BuyCredit(b, l)
    \/ GetMarketplace
    \/ \E u \in ReqUsernames : GetUser(u)
    \/ GetBlockchain

Spec == Init /\ [][Next]_vars

(***************************************************************************)
(* The handlers when blockchain.addBlock throws.  The ledger's append      *)
(* "fails only on payload-serialization failure, treated as fatal to that  *)
(* call" and then leaves the chain as it was.  The handlers' payloads are  *)
(* plain strings and numbers, so Spec has no such step; FaultSpec adds it  *)
(* to see what the handlers leave behind when the append does fail.        *)
(***************************************************************************)
\* POST /api/list-credit, the gate commits and addBlock throws: the listing was
\* created and stays pending.  server.js: the exception leaves the callback
\* and startConsensus and reaches the handler's catch (500).  pbft.js copy: the
\* callback's own catch logs it and the handler replies 200.
ListCreditAppendFails(username, amount, price) ==
    /\ ~ListFieldsMissing(version, username, amount, price)
    /\ ~NotASeller(users, username)
    /\ nextId <= MaxListings
    /\ LET listing == createListing(nextId, username, amount, price) IN
       /\ listings' = MapSet(listings, listing.id, listing)
       /\ hist' = MapSet(hist, listing.id,
                    [issuer |-> username, quantity |-> listing.amount,
                     unitPrice |-> listing.price, outcome |-> "Committed",
                     credits |-> 0, purchases |-> 0, buyer |-> ""])
       /\ res' = IF version = 1
                 THEN Reply("list", 500, FALSE, "Internal server error", 0, "Committed")
                 ELSE Reply("list", 200, TRUE,
                            "Carbon credit listed and undergoing verification",
                            listing.id, "Committed")
    /\ nextId' = nextId + 1
    /\ UNCHANGED <<pc, frontend, clients, outbox, version, users, chain, gate>>

\* POST /api/buy-credit, purchaseCredit succeeds and addBlock throws: the
\* database was already changed; the exception leaves the handler and the
\* error handler replies 500
BuyCreditAppendFails(buyer, listingId) ==
    /\ ~(FalsyStr(buyer) \/ listingId = 0)
    /\ LET result == purchaseCredit(users, listings, buyer, listingId) IN
       /\ result.success
       /\ users' = result.users
       /\ listings' = result.listings
    /\ res' = Reply("buy", 500, FALSE,
                    IF version = 1 THEN "Internal Server Error"
                                   ELSE "Internal server error", 0, NoGate)
    /\ UNCHANGED <<pc, frontend, clients, outbox, version, chain, nextId, hist, gate>>

\* The routes that change accounts, listings or the chain, each append of
\* which may fail (login and the GET routes change the reply only)
FaultNext ==
    \/ \E r \in RegisterRequests : Register(r[1], r[2], r[3])
    \/ \E r \in ListRequests : ListCredit(r[1], r[2], r[3])
    \/ \E b \in ReqBuyers, l \in ReqListingIds : BuyCredit(b, l)
    \/ \E r \in ListRequests : ListCreditAppendFails(r[1], r[2], r[3])
    \/ \E b \in ReqBuyers, l \in ReqListingIds : BuyCreditAppendFails(b, l)

FaultSpec == Init /\ [][FaultNext]_vars


(***************************************************************************)
(* The WebSocket side (src/backend/server.js 23-60, 141-154, 208-226;      *)
(* src/backend/pbft.js 140-179): attached clients and what is sent to      *)
(* them.  A client is named by the order of its connection.  Spec,         *)
(* FaultSpec and GateSpec are the server with no client attached, where    *)
(* every broadcast is an empty loop; SyncSpec attaches up to MaxClients    *)
(* clients to the two routes that broadcast.  A send may throw: `failing`  *)
(* is the client whose sends throw during the handler at hand, 0 for none. *)
(***************************************************************************)
MaxClients == 2

\* the requests of SyncSpec: a seller's listing of 2 credits and a listing
\* request by a buyer; purchases by a buyer and by the seller itself
SyncBuyers == {"buyer1", "seller1"}
SyncListRequests == { <<"seller1", Num(2), Num(1)>>, <<"buyer1", Num(2), Num(1)>> }

Range(s) == {s[i] : i \in DOMAIN s}
\* the position of client c in the sequence cl, 0 if it is not in it
Pos(cl, c) == IF c \in Range(cl) THEN CHOOSE i \in DOMAIN cl : cl[i] = c ELSE 0

\* JSON messages; seq is history: the number of blocks appended so far, which
\* numbers the mutations in the order they were committed
Message(type, data, ch) == [type |-> type, data |-> data, seq |-> Len(ch) - 1]
ChainMessage(ch) == Message("blockchain_update", getChain(ch), ch)
MarketMessage(ls, ch) == Message("marketplace_update", getMarketplace(ls), ch)
BalanceMessage(username, balance, ch) ==
    Message("user_balance_update",
            << [username |-> username, balance |-> balance] >>, ch)

\* no message sent to any client
Silent(ob) == [c \in DOMAIN ob |-> <<>>]

\* broadcastToClients(data): clients.forEach(client => client.send(...)).  In
\* server.js a send that throws ends the loop and leaves broadcastToClients;
\* in the pbft.js copy it is caught and the loop goes on.
broadcastToClients(cl, ob, msg, failing, v) ==
    LET fpos == Pos(cl, failing)
        reached(c) ==
            /\ c \in Range(cl)
            /\ \/ fpos = 0
               \/ v = 2 /\ c # failing
               \/ v = 1 /\ Pos(cl, c) < fpos
    IN  [outbox |-> [c \in DOMAIN ob |->
                        IF reached(c) THEN Append(ob[c], msg) ELSE ob[c]],
         threw |-> (v = 1 /\ fpos # 0)]

\* consecutive broadcastToClients calls; the first that throws ends them
RECURSIVE broadcastEach(_, _, _, _, _)
broadcastEach(cl, ob, msgs, failing, v) ==
    IF msgs = <<>> THEN [outbox |-> ob, threw |-> FALSE]
    ELSE LET b == broadcastToClients(cl, ob, Head(msgs), failing, v) IN
         IF b.threw THEN b
         ELSE broadcastEach(cl, b.outbox, Tail(msgs), failing, v)

\* Mutant of capturedBalance: the balance read is the one the account had when
\* the user was looked up, before the credit
capturedBalanceStale(before, after, username) == before[username].balance

\* `user.balance` in the callback: user is the object database.getUser
\* returned before the credit, and it is the users Map's own object, so the
\* balance read is the one after the credit
capturedBalance(before, after, username) == after[username].balance

\* Mutant of IssuanceMessages: the balance is broadcast first
IssuanceMessagesBalanceFirst(before, after, username) ==
    << BalanceMessage(username,
                      capturedBalance(before, after.users, username),
                      after.chain),
       ChainMessage(after.chain),
       MarketMessage(after.listings, after.chain) >>

\* the three broadcasts of the consensus callback's success branch
IssuanceMessages(before, after, username) ==
    << ChainMessage(after.chain),
       MarketMessage(after.listings, after.chain),
       BalanceMessage(username,
                      capturedBalance(before, after.users, username),
                      after.chain) >>

\* the four broadcasts of a successful purchase
PurchaseMessages(us, ls, ch, buyer, seller) ==
    << ChainMessage(ch), MarketMessage(ls, ch),
       BalanceMessage(buyer, us[buyer].balance, ch),
       BalanceMessage(seller, us[seller].balance, ch) >>

\* wss.on('connection'): the client is added and sent the chain and the
\* marketplace
Connect ==
    /\ Len(outbox) < MaxClients
    /\ clients' = Append(clients, Len(outbox) + 1)
    /\ outbox' = Append(Silent(outbox), << ChainMessage(chain),
                                           MarketMessage(listings, chain) >>)
    /\ UNCHANGED <<pc, frontend, version, users, listings, chain, nextId, res, hist, gate>>

\* ws.on('close') / ws.on('error'): clients.delete(ws)
Disconnect(c) ==
    /\ c \in Range(clients)
    /\ clients' = SelectSeq(clients, LAMBDA x : x # c)
    /\ outbox' = Silent(outbox)
    /\ UNCHANGED <<pc, frontend, version, users, listings, chain, nextId, res, hist, gate>>


\* POST /api/list-credit with clients attached
SyncListCredit(username, amount, price, failing) ==
    /\ IF ListFieldsMissing(version, username, amount, price)
       THEN /\ res' = Reply("list", 400, FALSE, "All fields are required", 0, NoGate)
            /\ outbox' = Silent(outbox)
            /\ UNCHANGED <<users, listings, chain, nextId, hist>>
       ELSE IF NotASeller(users, username)
       THEN /\ res' = Reply("list", 400, FALSE, "Invalid user or not a seller", 0, NoGate)
            /\ outbox' = Silent(outbox)
            /\ UNCHANGED <<users, listings, chain, nextId, hist>>
       ELSE /\ nextId <= MaxListings
            /\ \E votes \in VoteSamples :
               LET listing == createListing(nextId, username, amount, price)
                   result == startConsensus(votes[1], votes[2])
                   after == consensusCallback(result, users,
                                MapSet(listings, listing.id, listing), chain,
                                listing, username, amount, price)
                   sent == IF result.success
                           THEN broadcastEach(clients, Silent(outbox),
                                    IssuanceMessages(users, after, username),
                                    failing, version)
                           ELSE [outbox |-> Silent(outbox), threw |-> FALSE]
               IN  /\ users' = after.users
                   /\ listings' = after.listings
                   /\ chain' = after.chain
                   /\ hist' = MapSet(hist, listing.id,
                                [issuer |-> username, quantity |-> listing.amount,
                                 unitPrice |-> listing.price,
                                 outcome |-> Outcome(result),
                                 credits |-> IF result.success THEN 1 ELSE 0,
                                 purchases |-> 0, buyer |-> ""])
                   /\ outbox' = sent.outbox
                   /\ res' = IF sent.threw
                             THEN Reply("list", 500, FALSE, "Internal server error",
                                        0, Outcome(result))
                             ELSE Reply("list", 200, TRUE,
                                        "Carbon credit listed and undergoing verification",
                                        listing.id, Outcome(result))
            /\ nextId' = nextId + 1
    /\ UNCHANGED <<pc, frontend, version, gate, clients>>

\* POST /api/buy-credit with clients attached
SyncBuyCredit(buyer, listingId, failing) ==
    /\ IF FalsyStr(buyer) \/ listingId = 0
       THEN /\ res' = Reply("buy", 400, FALSE, "Buyer and listing ID are required", 0, NoGate)
            /\ outbox' = Silent(outbox)
            /\ UNCHANGED <<users, listings, chain, hist>>
       ELSE LET result == purchaseCredit(users, listings, buyer, listingId) IN
            /\ users' = result.users
            /\ listings' = result.listings
            /\ IF result.success
               THEN LET ch == addBlock(chain, PurchasePayload(listingId, buyer, result))
                        sent == broadcastEach(clients, Silent(outbox),
                                    PurchaseMessages(result.users, result.listings,
                                                     ch, buyer, result.seller),
                                    failing, version)
                    IN  /\ chain' = ch
                        /\ hist' = [hist EXCEPT ![listingId].purchases = @ + 1,
                                                ![listingId].buyer = buyer]
                        /\ outbox' = sent.outbox
                        /\ res' = IF sent.threw
                                  THEN Reply("buy", 500, FALSE, "Internal Server Error",
                                             0, NoGate)
                                  ELSE Reply("buy", 200, TRUE, "Purchase successful",
                                             0, NoGate)
               ELSE /\ res' = Reply("buy", 400, FALSE, result.message, 0, NoGate)
                    /\ outbox' = Silent(outbox)
                    /\ UNCHANGED <<chain, hist>>
    /\ UNCHANGED <<pc, frontend, version, nextId, gate, clients>>

SyncNext ==
    \/ Connect
    \/ \E c \in 1..MaxClients : Disconnect(c)
    \/ \E r \in SyncListRequests, f \in {0} \cup Range(clients) :
          SyncListCredit(r[1], r[2], r[3], f)
    \/ \E b \in SyncBuyers, l \in 1..MaxListings, f \in {0} \cup Range(clients) :
          SyncBuyCredit(b, l, f)

SyncSpec == Init /\ [][SyncNext]_vars


(***************************************************************************)
(* The quorum gate step by step (src/backend/pbft.js 9-93): one action per *)
(* simulated vote, so that the order of the votes is visible.  gate.log is *)
(* the sequence of simulateNodeVote / simulateNodeCommit calls made so far *)
(* with the value each returned; gate.result is what the callback was      *)
(* given; gate.callbacks counts the callback's invocations.                *)
(***************************************************************************)
Vote(phase, node, vote) == [phase |-> phase, node |-> node, vote |-> vote]

\* The YES votes among the first n of the votes
YesAmong(votes, n) == Cardinality({k \in DOMAIN votes : k <= n /\ votes[k]})

\* Mutant of GateStart: the prepare tally is not reset; it starts from the YES
\* votes of the decision before
GateStartKeepsTally(tx) ==
    /\ gate.pc = "idle"
    /\ gate' = [gate EXCEPT !.pc = "prepare", !.tx = tx,
                            !.prepareCount = YesAmong(gate.prev.votes, Len(nodes))]
    /\ UNCHANGED <<pc, frontend, clients, outbox, version, users, listings, chain, nextId, res, hist>>

\* startConsensus is entered: broadcastPrePrepare only logs; the tallies are
\* locals of collectPrepareMessages / collectCommitMessages and start at 0
GateStart(tx) ==
    /\ gate.pc = "idle"
    /\ gate' = [gate EXCEPT !.pc = "prepare", !.tx = tx]
    /\ UNCHANGED <<pc, frontend, clients, outbox, version, users, listings, chain, nextId, res, hist>>

\* Mutant of PrepareVote: the vote is also stored in this.prepareMessages
PrepareVoteRecords(v) ==
    /\ gate.pc = "prepare"
    /\ gate.i < Len(nodes)
    /\ gate' = [gate EXCEPT
                  !.i = @ + 1,
                  !.prepareCount = IF v THEN @ + 1 ELSE @,
                  !.prepareMessages = Append(@, Vote("prepare", nodes[gate.i + 1], v)),
                  !.log = Append(@, Vote("prepare", nodes[gate.i + 1], v))]
    /\ UNCHANGED <<pc, frontend, clients, outbox, version, users, listings, chain, nextId, res, hist>>

\* collectPrepareMessages: one iteration of nodes.forEach
PrepareVote(v) ==
    /\ gate.pc = "prepare"
    /\ gate.i < Len(nodes)
    /\ gate' = [gate EXCEPT
                  !.i = @ + 1,
                  !.prepareCount = IF v THEN @ + 1 ELSE @,
                  !.log = Append(@, Vote("prepare", nodes[gate.i + 1], v))]
    /\ UNCHANGED <<pc, frontend, clients, outbox, version, users, listings, chain, nextId, res, hist>>

\* Mutant of PrepareTally: the commit phase is entered whatever the tally
PrepareTallyAlwaysCommits ==
    /\ gate.pc = "prepare"
    /\ gate.i = Len(nodes)
    /\ gate' = [gate EXCEPT !.pc = "commit", !.i = 0]
    /\ UNCHANGED <<pc, frontend, clients, outbox, version, users, listings, chain, nextId, res, hist>>

\* collectPrepareMessages returns; startConsensus tests prepareResults.prepared
PrepareTally ==
    /\ gate.pc = "prepare"
    /\ gate.i = Len(nodes)
    /\ gate' = IF gate.prepareCount >= required
               THEN [gate EXCEPT !.pc = "commit", !.i = 0]
               ELSE [gate EXCEPT !.pc = "done", !.result = "Prepare phase failed",
                                 !.callbacks = @ + 1]
    /\ UNCHANGED <<pc, frontend, clients, outbox, version, users, listings, chain, nextId, res, hist>>

\* collectCommitMessages: one iteration of nodes.forEach
CommitVote(v) ==
    /\ gate.pc = "commit"
    /\ gate.i < Len(nodes)
    /\ gate' = [gate EXCEPT
                  !.i = @ + 1,
                  !.commitCount = IF v THEN @ + 1 ELSE @,
                  !.log = Append(@, Vote("commit", nodes[gate.i + 1], v))]
    /\ UNCHANGED <<pc, frontend, clients, outbox, version, users, listings, chain, nextId, res, hist>>

\* collectCommitMessages returns; startConsensus tests commitResults.committed
CommitTally ==
    /\ gate.pc = "commit"
    /\ gate.i = Len(nodes)
    /\ gate' = [gate EXCEPT
                  !.pc = "done",
                  !.result = IF gate.commitCount >= required
                             THEN "success" ELSE "Commit phase failed",
                  !.callbacks = @ + 1]
    /\ UNCHANGED <<pc, frontend, clients, outbox, version, users, listings, chain, nextId, res, hist>>

\* The gate after startConsensus has returned: its locals are gone, its fields
\* are as they were, and the decision is remembered as the one before
Returned(g) ==
    [GateIdle EXCEPT
       !.prepareMessages = g.prepareMessages,
       !.commitMessages = g.commitMessages,
       !.prev = [votes |-> [k \in DOMAIN g.log |-> g.log[k].vote],
                 result |-> g.result, tx |-> g.tx]]

\* startConsensus returns to its caller
GateReturn ==
    /\ gate.pc = "done"
    /\ gate' = Returned(gate)
    /\ UNCHANGED <<pc, frontend, clients, outbox, version, users, listings, chain, nextId, res, hist>>

GateNext ==
    \/ \E tx \in 1..MaxListings : GateStart(tx)
    \/ \E v \in BOOLEAN : PrepareVote(v)
    \/ PrepareTally
    \/ \E v \in BOOLEAN : CommitVote(v)
    \/ CommitTally
    \/ GateReturn

GateSpec == Init /\ [][GateNext]_vars


(***************************************************************************)
(* Properties                                                              *)
(***************************************************************************)
RECURSIVE SumOver(_, _)
\* The sum of f[x] over the finite set S
SumOver(f, S) ==
    IF S = {} THEN 0
    ELSE LET x == CHOOSE y \in S : TRUE IN f[x] + SumOver(f, S \ {x})

\* The sum of all account balances
TotalBalance(us) == SumOver([u \in DOMAIN us |-> us[u].balance], DOMAIN us)

\* The sum of the quantities of the issuances the gate committed
CommittedQuantity(h) ==
    SumOver([id \in DOMAIN h |->
                IF h[id].outcome = "Committed" THEN h[id].quantity ELSE 0],
            DOMAIN h)

\* The step is a successful purchase / a committed or an aborted issuance
PurchaseDone == res'.op = "buy" /\ res'.success
IssueCommitted == res'.op = "list" /\ res'.gate = "Committed"
IssueAborted == res'.op = "list" /\ res'.gate = "Aborted"

\* C1 (conservation): in every state the sum of all account balances equals
\* the sum of the quantities of the issuances whose gate outcome was
\* Committed; and every step other than a committed issuance (a purchase, a
\* registration, a login, an aborted issuance, any failed request) leaves the
\* sum of all balances unchanged, a successful purchase leaving the sum of the
\* seller's and the buyer's balance unchanged.
C1_Conservation ==
    /\ [](TotalBalance(users) = CommittedQuantity(hist))
    /\ [][ /\ ~IssueCommitted => TotalBalance(users') = TotalBalance(users)
           /\ \A b \in ReqBuyers, l \in ReqListingIds :
                (PurchaseDone /\ BuyCredit(b, l)) =>
                   LET S == listings[l].seller IN
                   /\ b \in DOMAIN users /\ S \in DOMAIN users
                   /\ IF S = b
                      THEN users'[b].balance = users[b].balance
                      ELSE users'[S].balance + users'[b].balance
                             = users[S].balance + users[b].balance
         ]_vars

\* C1 witness: after a committed issuance of 2 credits and their purchase the
\* buyer holds them and the seller holds none
C1_Witness ==
    /\ res.op = "buy" /\ res.success
    /\ users["buyer1"].balance = 2
    /\ users["seller1"].balance = 0
    /\ CommittedQuantity(hist) = 2


\* The chain grew by exactly one block, which carries `data`
OneBlockAppended(data) ==
    /\ Len(chain') = Len(chain) + 1
    /\ SubSeq(chain', 1, Len(chain)) = chain
    /\ chain'[Len(chain')].data = data

\* Account u's balance after the step is its balance before plus d
BalanceMoved(u, d) == users'[u].balance = users[u].balance + d

\* C2 (committed issuance): whenever a list-credit request by an existing
\* seller is committed by the gate, the issuer's balance grows by exactly the
\* listing's quantity, the listing is stored as verified and appears in
\* getMarketplace(), and the chain grows by exactly one block whose payload is
\* the issuance record (listing id, issuer, quantity, unit price, verified).
C2_CommittedIssuance ==
    [][ \A r \in ListRequests :
          (IssueCommitted /\ ListCredit(r[1], r[2], r[3])) =>
            LET id == res'.listingId IN
            /\ id = nextId /\ id \notin DOMAIN listings
            /\ r[1] \in DOMAIN users /\ users[r[1]].role = "seller"
            /\ BalanceMoved(r[1], r[2].v)
            /\ id \in DOMAIN listings'
            /\ listings'[id] = [id |-> id, seller |-> r[1], amount |-> r[2].v,
                                price |-> r[3].v, status |-> "verified",
                                createdAt |-> id]
            /\ \E k \in DOMAIN getMarketplace(listings') :
                  getMarketplace(listings')[k].id = id
            /\ OneBlockAppended(
                  [type |-> "carbon_credit_listing", listingId |-> id,
                   seller |-> r[1], buyer |-> "", amount |-> r[2].v,
                   price |-> r[3].v, status |-> "verified"])
      ]_vars

\* C2 witness: seller1's issuance of 2 credits at price 1 was committed
C2_Witness ==
    /\ res.op = "list" /\ res.gate = "Committed" /\ res.listingId = 1
    /\ listings[1].status = "verified" /\ listings[1].amount = 2
    /\ users["seller1"].balance = 2
    /\ Len(chain) = 2

\* C3 (aborted issuance): whenever the gate aborts an issuance, the listing is
\* stored as failed, no balance changes, no block is appended and the listing
\* is not in getMarketplace(); and in every state no listing whose issuance
\* was aborted is in getMarketplace().
C3_AbortedIssuance ==
    /\ [][ \A r \in ListRequests :
             (IssueAborted /\ ListCredit(r[1], r[2], r[3])) =>
               LET id == res'.listingId IN
               /\ id = nextId /\ id \notin DOMAIN listings
               /\ id \in DOMAIN listings' /\ listings'[id].status = "failed"
               /\ users' = users
               /\ chain' = chain
               /\ \A k \in DOMAIN getMarketplace(listings') :
                     getMarketplace(listings')[k].id # id
         ]_vars
    /\ [](\A id \in DOMAIN hist :
             hist[id].outcome = "Aborted" =>
               \A k \in DOMAIN getMarketplace(listings) :
                  getMarketplace(listings)[k].id # id)

\* C3 witness: an aborted issuance sits beside a verified listing in the store
C3_Witness ==
    /\ res.op = "list" /\ res.gate = "Aborted" /\ res.listingId = 2
    /\ listings[2].status = "failed"
    /\ 1 \in DOMAIN listings /\ listings[1].status = "verified"
    /\ Len(getMarketplace(listings)) = 1


\* The change a purchase of quantity q from seller S by buyer b makes to
\* account u's balance: S is debited q and b is credited q
PurchaseDelta(u, S, b, q) ==
    (IF u = b THEN q ELSE 0) - (IF u = S THEN q ELSE 0)

\* C4 (successful purchase): a successful purchase(buyer, listingId) of a
\* verified listing with seller S and quantity q debits S by exactly q and
\* credits the buyer by exactly q, leaves every other balance alone, deletes
\* the listing (it is no longer stored nor in getMarketplace()), appends
\* exactly one block carrying the transfer record (listing id, buyer, seller,
\* quantity, unit price), and purchaseCredit returns the listing's own seller,
\* quantity and unit price.
C4_SuccessfulPurchase ==
    [][ \A b \in ReqBuyers, l \in ReqListingIds :
          (PurchaseDone /\ BuyCredit(b, l)) =>
            /\ l \in DOMAIN listings /\ listings[l].status = "verified"
            /\ LET L == listings[l]
                   ret == purchaseCredit(users, listings, b, l)
               IN  /\ DOMAIN users' = DOMAIN users
                   /\ \A u \in DOMAIN users :
                         BalanceMoved(u, PurchaseDelta(u, L.seller, b, L.amount))
                   /\ l \notin DOMAIN listings'
                   /\ \A k \in DOMAIN getMarketplace(listings') :
                         getMarketplace(listings')[k].id # l
                   /\ OneBlockAppended(
                         [type |-> "carbon_credit_purchase", listingId |-> l,
                          seller |-> L.seller, buyer |-> b, amount |-> L.amount,
                          price |-> L.price, status |-> ""])
                   /\ ret.success
                   /\ ret.seller = L.seller /\ ret.amount = L.amount
                   /\ ret.price = L.price
      ]_vars

\* C4 witness: buyer1 bought listing 1 (2 credits of seller1) and the transfer
\* block is the chain's last
C4_Witness ==
    /\ res.op = "buy" /\ res.success
    /\ 1 \notin DOMAIN listings /\ 1 \in DOMAIN hist
    /\ chain[Len(chain)].data.type = "carbon_credit_purchase"
    /\ chain[Len(chain)].data.buyer = "buyer1"
    /\ chain[Len(chain)].data.seller = "seller1"
    /\ users["buyer1"].balance = 2

\* C5 (failed purchase): a purchase request naming a buyer and a listing id
\* fails exactly when the listing id is absent, or the listing's status is not
\* verified, or the buyer account does not exist (reported in that order of
\* precedence); and whenever a purchase request fails, no account, no listing
\* and no block changes.
C5_FailedPurchase ==
    [][ \A b \in ReqBuyers, l \in ReqListingIds :
          (res'.op = "buy" /\ BuyCredit(b, l)) =>
            /\ (b # "" /\ l # 0) =>
                 /\ ~res'.success <=>
                      \/ l \notin DOMAIN listings
                      \/ listings[l].status # "verified"
                      \/ b \notin DOMAIN users
                 /\ l \notin DOMAIN listings =>
                      res'.message = "Listing not found"
                 /\ (l \in DOMAIN listings /\ listings[l].status # "verified") =>
                      res'.message = "Listing not available for purchase"
                 /\ (l \in DOMAIN listings /\ listings[l].status = "verified"
                       /\ b \notin DOMAIN users) =>
                      res'.message = "Buyer not found"
            /\ ~res'.success =>
                 /\ res'.status = 400
                 /\ users' = users /\ listings' = listings /\ chain' = chain
      ]_vars

\* C5 witness: a purchase of a failed listing was refused while a verified
\* listing and credited balances exist
C5_Witness ==
    /\ res.op = "buy" /\ ~res.success
    /\ res.message = "Listing not available for purchase"
    /\ \E l \in DOMAIN listings : listings[l].status = "failed"
    /\ \E l \in DOMAIN listings : listings[l].status = "verified"

\* C6 (listing lifecycle): a listing is created pending and stored, when its
\* request completes, as verified or as failed according to the gate; between
\* requests a stored listing never changes status or any other field; a
\* listing leaves the store only by a successful purchase, and only from
\* verified; a failed listing is never credited and never purchased; and no
\* listing is credited more than once.
C6_Lifecycle ==
    /\ [][ \A id \in 1..MaxListings :
             /\ (id \in DOMAIN listings /\ id \in DOMAIN listings') =>
                   listings'[id] = listings[id]
             /\ (id \in DOMAIN listings /\ id \notin DOMAIN listings') =>
                   listings[id].status = "verified" /\ PurchaseDone
             /\ (id \notin DOMAIN listings /\ id \in DOMAIN listings') =>
                   /\ res'.op = "list" /\ res'.listingId = id
                   /\ listings'[id].status =
                        (IF res'.gate = "Committed" THEN "verified" ELSE "failed")
                   /\ \E r \in ListRequests :
                        createListing(id, r[1], r[2], r[3]).status = "pending"
                        /\ listings'[id] =
                             [createListing(id, r[1], r[2], r[3])
                                EXCEPT !.status = listings'[id].status]
             /\ (id \in DOMAIN listings /\ listings[id].status = "failed") =>
                   /\ id \in DOMAIN listings' /\ listings'[id].status = "failed"
                   /\ \A b \in ReqBuyers :
                        ~purchaseCredit(users, listings, b, id).success
         ]_vars
    /\ [](\A id \in DOMAIN hist :
             /\ hist[id].credits <= 1
             /\ hist[id].outcome = "Aborted" =>
                  /\ hist[id].credits = 0 /\ hist[id].purchases = 0
                  /\ id \in DOMAIN listings /\ listings[id].status = "failed"
             /\ hist[id].outcome = "Committed" =>
                  /\ hist[id].credits = 1
                  /\ IF id \in DOMAIN listings
                     THEN listings[id].status = "verified" /\ hist[id].purchases = 0
                     ELSE hist[id].purchases = 1)
    /\ [](\A id \in DOMAIN listings :
             id \in DOMAIN hist /\ listings[id].status \in {"verified", "failed"})

\* C6 witness: of two issued listings one was committed and then purchased
\* (deleted), the other was aborted and is still stored as failed
C6_Witness ==
    /\ DOMAIN hist = {1, 2}
    /\ hist[1].outcome = "Committed" /\ hist[1].purchases = 1
    /\ 1 \notin DOMAIN listings
    /\ hist[2].outcome = "Aborted"
    /\ listings[2].status = "failed"


\* The calls of one phase in the gate's log, and the YES votes among them
Cast(phase) == {k \in DOMAIN gate.log : gate.log[k].phase = phase}
Yes(phase) == {k \in Cast(phase) : gate.log[k].vote}

\* The number of validators and the quorum 2 * floor((N - 1) / 3) + 1
ValidatorCount == Len(nodes)
Quorum == 2 * ((ValidatorCount - 1) \div 3) + 1

\* C7 (quorum decision): with N = 4 validators the threshold T is 3, and a
\* finished decision is Committed if and only if at least T prepare votes and
\* at least T commit votes were YES, and Aborted otherwise; all votes YES
\* gives Committed and all votes NO gives Aborted.
C7_QuorumDecision ==
    /\ ValidatorCount = 4 /\ Quorum = 3
    /\ gate.pc = "done" =>
         /\ gate.result \in {"success", "Prepare phase failed", "Commit phase failed"}
         /\ gate.result = "success" <=>
              /\ Cardinality(Yes("prepare")) >= Quorum
              /\ Cardinality(Yes("commit")) >= Quorum
         /\ (Yes("prepare") = Cast("prepare") /\ Yes("commit") = Cast("commit"))
              => gate.result = "success"
         /\ (Yes("prepare") = {} /\ Yes("commit") = {})
              => gate.result # "success"

\* C7 witness: a decision committed with exactly three YES votes in each phase
C7_Witness ==
    /\ gate.pc = "done" /\ gate.result = "success"
    /\ Cardinality(Yes("prepare")) = 3
    /\ Cardinality(Yes("commit")) = 3

\* C8 (phase ordering): the gate asks each of the N validators, in the
\* configured order, for one prepare vote before any commit vote; a commit vote
\* is cast only after N prepare votes of which at least T were YES; a finished
\* decision with fewer than T prepare YES votes is aborted with the prepare
\* failure and has cast no commit vote; a finished decision has cast exactly N
\* commit votes if and only if at least T prepare votes were YES, and with
\* fewer than T commit YES votes it is aborted with the commit failure.
C8_PhaseOrdering ==
    /\ \A k \in DOMAIN gate.log :
          IF k <= ValidatorCount
          THEN gate.log[k].phase = "prepare" /\ gate.log[k].node = nodes[k]
          ELSE /\ gate.log[k].phase = "commit"
               /\ gate.log[k].node = nodes[k - ValidatorCount]
    /\ Len(gate.log) <= 2 * ValidatorCount
    /\ Cast("commit") # {} =>
          /\ Cardinality(Cast("prepare")) = ValidatorCount
          /\ Cardinality(Yes("prepare")) >= Quorum
    /\ gate.pc = "done" =>
          /\ Cardinality(Cast("prepare")) = ValidatorCount
          /\ Cardinality(Yes("prepare")) < Quorum =>
                gate.result = "Prepare phase failed" /\ Cast("commit") = {}
          /\ Cardinality(Cast("commit")) = ValidatorCount
                <=> Cardinality(Yes("prepare")) >= Quorum
          /\ Cardinality(Cast("commit")) \in {0, ValidatorCount}
          /\ (Cardinality(Yes("prepare")) >= Quorum
                /\ Cardinality(Yes("commit")) < Quorum) =>
                gate.result = "Commit phase failed"

\* C8 witness: a decision that stopped after a prepare shortfall of one vote
C8_Witness ==
    /\ gate.pc = "done" /\ gate.result = "Prepare phase failed"
    /\ Cardinality(Yes("prepare")) = 2
    /\ Len(gate.log) = 4

\* The step-by-step gate and startConsensus agree on every finished decision
GateMatchesStartConsensus ==
    gate.pc = "done" =>
      LET pv == [i \in 1..Len(nodes) |-> gate.log[i].vote]
          cv == [i \in 1..Len(nodes) |->
                    IF Len(nodes) + i \in DOMAIN gate.log
                    THEN gate.log[Len(nodes) + i].vote ELSE FALSE]
          r == startConsensus(pv, cv)
      IN  /\ (gate.result = "success") = r.success
          /\ ~r.success => gate.result = r.error
          /\ gate.callbacks = 1


\* The request changed nothing but the reply: no listing was created, the gate
\* was not run, no balance changed and no block was appended
RequestRefused ==
    /\ ~res'.success /\ res'.gate = NoGate
    /\ listings' = listings /\ nextId' = nextId /\ hist' = hist
    /\ users' = users /\ chain' = chain

\* C9 (invalid amount): every list-credit request whose quantity is <= 0 or
\* whose unit price is <= 0 fails, and then no listing is created, the gate is
\* not invoked, no balance changes and no block is appended.
C9_InvalidAmountRejected ==
    [][ \A r \in ListRequests :
          ( /\ res'.op = "list"
            /\ ~r[2].null /\ ~r[3].null
            /\ (r[2].v <= 0 \/ r[3].v <= 0)
            /\ ListCredit(r[1], r[2], r[3]) ) => RequestRefused
      ]_vars

\* C10 (unknown issuer or wrong role): every list-credit request whose issuer
\* account does not exist or does not have the seller role fails, and then no
\* listing is created, the gate is not invoked, no balance changes and no
\* block is appended.
C10_IssuerMustBeSeller ==
    [][ \A r \in ListRequests :
          ( /\ res'.op = "list"
            /\ (r[1] \notin DOMAIN users \/ users[r[1]].role # "seller")
            /\ ListCredit(r[1], r[2], r[3]) )
          => (RequestRefused /\ res'.status = 400)
      ]_vars

\* C10 witness: an otherwise valid request by the buyer account was refused
\* for its role
C10_Witness ==
    /\ res.op = "list" /\ ~res.success
    /\ res.message = "Invalid user or not a seller"
    /\ users["buyer1"].role = "buyer"

(***************************************************************************)
(* C11: every account's balance is at least 0 in every reachable state,    *)
(* whatever registrations, issuances and purchases the request layer has   *)
(* accepted.                                                               *)
(***************************************************************************)
C11_NonNegativeBalances ==
    \A u \in DOMAIN users : users[u].balance >= 0

(***************************************************************************)
(* C12: hash-chain integrity.  In every reachable state the first block is *)
(* the fixed genesis block, every later block's previousHash is the hash   *)
(* of the block before it, and verify() reports no break.                  *)
(***************************************************************************)
C12_HashChainIntegrity ==
    /\ chain[1] = Genesis
    /\ \A i \in 2..Len(chain) : chain[i].previousHash = chain[i - 1].hash
    /\ verify(chain) = NoBreak

\* a chain holding an issuance block followed by a transfer block
C12_Witness ==
    /\ Len(chain) >= 3
    /\ \E i, j \in 2..Len(chain) :
         /\ i < j
         /\ chain[i].data.type = "carbon_credit_listing"
         /\ chain[j].data.type = "carbon_credit_purchase"

\* The number of issuances the gate committed / of successful purchases
CommittedIssuances(h) ==
    Cardinality({id \in DOMAIN h : h[id].outcome = "Committed"})
SuccessfulPurchases(h) ==
    SumOver([id \in DOMAIN h |-> h[id].purchases], DOMAIN h)

\* The number of blocks of the chain whose payload is of the given type
BlocksOfType(ch, type) ==
    Cardinality({k \in DOMAIN ch : ch[k].data.type = type})

(***************************************************************************)
(* C13: only committed mutations are recorded.  In every reachable state   *)
(* the chain holds the genesis block, one issuance block per committed     *)
(* issuance and one transfer block per successful purchase, and nothing    *)
(* else; every step that is neither a committed issuance nor a successful  *)
(* purchase (a registration, a login, a read, an aborted issuance, any     *)
(* refused request) leaves the chain as it was.                            *)
(***************************************************************************)
C13_OnlyCommittedRecorded ==
    /\ [] /\ Len(chain) = 1 + CommittedIssuances(hist) + SuccessfulPurchases(hist)
          /\ BlocksOfType(chain, "carbon_credit_listing") = CommittedIssuances(hist)
          /\ BlocksOfType(chain, "carbon_credit_purchase") = SuccessfulPurchases(hist)
    /\ [][ ~(IssueCommitted \/ PurchaseDone) => chain' = chain ]_vars

\* C13 witness: one committed issuance, its purchase, one aborted issuance and
\* then a refused purchase: genesis and two blocks
C13_Witness ==
    /\ Len(chain) = 3
    /\ \E id \in DOMAIN hist : hist[id].outcome = "Aborted"
    /\ \E id \in DOMAIN hist : hist[id].purchases = 1
    /\ res.op = "buy" /\ ~res.success

\* Sequence s is a prefix of sequence t
IsPrefix(s, t) == Len(s) <= Len(t) /\ SubSeq(t, 1, Len(s)) = s

(***************************************************************************)
(* C14: the ledger is append-only.  Every step leaves the chain it started *)
(* from as a prefix of the chain it ends with (so the chain of any state   *)
(* is a prefix of the chain of every state reached later): no block is     *)
(* removed, reordered or modified after it was appended, and serving the   *)
(* chain on GET /api/blockchain does not change it.                        *)
(***************************************************************************)
C14_AppendOnly ==
    [][ /\ IsPrefix(chain, chain')
        /\ res'.op = "blockchain" => (res'.data = chain /\ chain' = chain)
      ]_vars

\* C14 witness: the chain was read after two blocks had been appended
C14_Witness ==
    /\ res.op = "blockchain" /\ Len(res.data) = 3
    /\ res.data = chain

\* The statuses a stored listing passes through
Statuses == {"pending", "verified", "failed"}

\* The view m is exactly the verified listings of the store ls, each once and
\* each projected to id, seller, amount, price and createdAt
ExactlyVerified(m, ls) ==
    /\ {m[k].id : k \in DOMAIN m} =
          {id \in DOMAIN ls : ls[id].status = "verified"}
    /\ \A j, k \in DOMAIN m : m[j].id = m[k].id => j = k
    /\ \A k \in DOMAIN m :
         LET l == ls[m[k].id] IN
         /\ DOMAIN m[k] = {"id", "seller", "amount", "price", "createdAt"}
         /\ m[k].id = l.id /\ m[k].seller = l.seller /\ m[k].amount = l.amount
         /\ m[k].price = l.price /\ m[k].createdAt = l.createdAt

(***************************************************************************)
(* C15: getMarketplace() returns exactly the stored listings whose status  *)
(* is verified, each projected to id, seller, quantity, unit price and     *)
(* createdAt.  It holds no pending and no failed listing (whichever status *)
(* a stored listing is given, it is in the view iff that status is         *)
(* verified) and no listing that was purchased; and GET /api/marketplace   *)
(* replies with that view and changes no state.                            *)
(***************************************************************************)
C15_MarketplaceView ==
    /\ [] /\ ExactlyVerified(getMarketplace(listings), listings)
          /\ \A id \in DOMAIN listings, st \in Statuses :
               LET ls == [listings EXCEPT ![id].status = st] IN
               /\ ExactlyVerified(getMarketplace(ls), ls)
               /\ (\E k \in DOMAIN getMarketplace(ls) :
                      getMarketplace(ls)[k].id = id) <=> st = "verified"
          /\ \A k \in DOMAIN getMarketplace(listings) :
               hist[getMarketplace(listings)[k].id].purchases = 0
    /\ [][ res'.op = "marketplace" =>
             /\ res'.data = getMarketplace(listings)
             /\ UNCHANGED <<users, listings, chain, nextId, hist>>
         ]_vars

\* C15 witness: the marketplace was read while the store held a verified and a
\* failed listing; the reply holds the verified one only
C15_Witness ==
    /\ res.op = "marketplace" /\ Len(res.data) = 1
    /\ \E id \in DOMAIN listings : listings[id].status = "failed"
    /\ \E id \in DOMAIN listings :
         listings[id].status = "verified" /\ res.data[1].id = id

\* Usernames and roles registerUser is applied to: the two accounts of the
\* test data, two new names; the two allowed roles, an unknown role, no role
RegNames == {"seller1", "buyer1", "seller2", "trader9"}
RegRoles == {"buyer", "seller", "admin", ""}

\* From the accounts us, exactly the account u was added, with role r and
\* balance 0; every account of us is as it was
OneAccountAdded(us, after, u, r) ==
    /\ u \notin DOMAIN us
    /\ DOMAIN after = DOMAIN us \cup {u}
    /\ after[u].role = r /\ after[u].balance = 0
    /\ \A w \in DOMAIN us : after[w] = us[w]

(***************************************************************************)
(* C16: registration fails when the username already exists and fails when *)
(* the role is neither buyer nor seller; a failed registration creates and *)
(* alters no account (an existing account keeps its role and balance); a   *)
(* successful one adds exactly one account, with balance 0, and changes no *)
(* other account, no listing and no block.  Stated of registerUser in      *)
(* every reachable state, and of every POST /api/register step.            *)
(***************************************************************************)
C16_Registration ==
    /\ [] \A u \in RegNames, r \in RegRoles :
            LET x == registerUser(users, u, "password123", r) IN
            /\ x.success <=> (u \notin DOMAIN users /\ r \in {"buyer", "seller"})
            /\ ~x.success => x.users = users
            /\ x.success => OneAccountAdded(users, x.users, u, r)
    /\ [][ \A q \in RegisterRequests :
             (res'.op = "register" /\ Register(q[1], q[2], q[3])) =>
               /\ res'.success <=>
                    /\ q[1] # "" /\ q[2] # "" /\ q[3] \in {"buyer", "seller"}
                    /\ q[1] \notin DOMAIN users
               /\ res'.status = (IF res'.success THEN 200 ELSE 400)
               /\ ~res'.success => users' = users
               /\ res'.success => OneAccountAdded(users, users', q[1], q[3])
               /\ UNCHANGED <<listings, chain, nextId, hist>>
         ]_vars

\* C16 witness: seller2 was registered while seller1 held credits and a
\* listing was in the store
C16_Witness ==
    /\ res.op = "register" /\ res.success
    /\ "seller2" \in DOMAIN users /\ users["seller2"].balance = 0
    /\ users["seller1"].balance > 0
    /\ listings # <<>>

(***************************************************************************)
(* C17: a purchase is all-or-nothing with respect to the ledger.  After    *)
(* every POST /api/buy-credit step, either the chain grew by exactly one   *)
(* transfer block and the listing it names was deleted, its seller debited *)
(* and the buyer credited by the listing's quantity, or the chain is as it *)
(* was and so are all balances and all listings; in particular a purchase  *)
(* whose block append fails leaves balances and listing unchanged.         *)
(***************************************************************************)
C17_PurchaseAllOrNothing ==
    [][ res'.op = "buy" =>
          IF chain' = chain
          THEN users' = users /\ listings' = listings
          ELSE /\ Len(chain') = Len(chain) + 1 /\ IsPrefix(chain, chain')
               /\ LET d == chain'[Len(chain')].data IN
                  /\ d.type = "carbon_credit_purchase"
                  /\ d.listingId \in DOMAIN listings
                  /\ d.listingId \notin DOMAIN listings'
                  /\ \A u \in DOMAIN users :
                       BalanceMoved(u, PurchaseDelta(u, d.seller, d.buyer,
                                                     listings[d.listingId].amount))
      ]_vars

\* The chain holds an issuance block for listing id
HasIssuanceBlock(id) ==
    \E k \in DOMAIN chain :
       chain[k].data.type = "carbon_credit_listing" /\ chain[k].data.listingId = id

(***************************************************************************)
(* C18: applying a Committed gate outcome is atomic.  Every list-credit    *)
(* step either appends the issuance block, credits the issuer by the       *)
(* quantity and leaves the new listing verified, all three, or does none   *)
(* of them (no block, no balance change, no new verified listing), also    *)
(* when the append fails; and the step touches no other listing and no     *)
(* other account, so no purchase and no other issuance ran in between.  In *)
(* every state a listing has its issuance block iff it is verified or was  *)
(* purchased.                                                              *)
(***************************************************************************)
C18_CommitAppliedAtomically ==
    /\ [] \A id \in DOMAIN hist :
            HasIssuanceBlock(id) <=>
               (id \notin DOMAIN listings \/ listings[id].status = "verified")
    /\ [][ res'.op = "list" =>
             /\ \A id \in DOMAIN listings :
                   id \in DOMAIN listings' /\ listings'[id] = listings[id]
             /\ IF chain' # chain
                THEN /\ res'.gate = "Committed"
                     /\ Len(chain') = Len(chain) + 1 /\ IsPrefix(chain, chain')
                     /\ LET d == chain'[Len(chain')].data IN
                        /\ d.type = "carbon_credit_listing"
                        /\ d.listingId = nextId
                        /\ d.listingId \in DOMAIN listings'
                        /\ listings'[d.listingId].status = "verified"
                        /\ listings'[d.listingId].amount = d.amount
                        /\ listings'[d.listingId].seller = d.seller
                        /\ \A u \in DOMAIN users :
                             BalanceMoved(u, IF u = d.seller THEN d.amount ELSE 0)
                ELSE /\ users' = users
                     /\ \A id \in DOMAIN listings' :
                          listings'[id].status = "verified" => id \in DOMAIN listings
         ]_vars

\* C18 witness: two committed issuances, the first of which lost its block
\* append (nothing applied, the listing is pending) and the second of which
\* was applied in full
C18_Witness ==
    /\ res.op = "list" /\ res.gate = "Committed"
    /\ DOMAIN listings = {1, 2}
    /\ listings[1].status = "pending" /\ ~HasIssuanceBlock(1)
    /\ listings[2].status = "verified" /\ HasIssuanceBlock(2)
    /\ users[listings[2].seller].balance = listings[2].amount

\* The sum of the quantities of the committed issuances of issuer u
IssuedBy(h, u) ==
    SumOver([id \in DOMAIN h |->
                IF h[id].issuer = u /\ h[id].outcome = "Committed"
                THEN h[id].quantity ELSE 0],
            DOMAIN h)

(***************************************************************************)
(* C19: serialized writers.  Whatever list-credit requests were submitted  *)
(* and in whatever order their handlers ran, as long as no purchase has    *)
(* moved credits every account's balance is its initial balance (0) plus   *)
(* the sum of the quantities of its committed issuances, and the chain     *)
(* holds the genesis block and exactly one issuance block per committed    *)
(* issuance.                                                               *)
(***************************************************************************)
C19_SerializedWriter ==
    SuccessfulPurchases(hist) = 0 =>
        /\ \A u \in DOMAIN users : users[u].balance = IssuedBy(hist, u)
        /\ BlocksOfType(chain, "carbon_credit_listing") = CommittedIssuances(hist)
        /\ Len(chain) = 1 + CommittedIssuances(hist)
        /\ \A id \in DOMAIN hist :
             hist[id].outcome = "Committed" => HasIssuanceBlock(id)

\* C19 witness: two issuances of the same seller were committed; its balance
\* is the sum of both quantities and the chain holds two issuance blocks
C19_Witness ==
    /\ DOMAIN hist = {1, 2}
    /\ \A id \in {1, 2} :
         /\ hist[id].issuer = "seller1" /\ hist[id].outcome = "Committed"
         /\ hist[id].quantity = 2
    /\ SuccessfulPurchases(hist) = 0
    /\ users["seller1"].balance = 4
    /\ Len(chain) = 3

\* The chain holds a transfer block for listing id
HasTransferBlock(id) ==
    \E k \in DOMAIN chain :
       chain[k].data.type = "carbon_credit_purchase" /\ chain[k].data.listingId = id

\* What the blocks of the chain ch say account u holds: the quantities of its
\* issuance blocks, less what it sold, plus what it bought
LedgerBalance(ch, u) ==
    SumOver([k \in DOMAIN ch |->
                LET d == ch[k].data IN
                IF d.type = "carbon_credit_listing"
                THEN (IF d.seller = u THEN d.amount ELSE 0)
                ELSE IF d.type = "carbon_credit_purchase"
                THEN PurchaseDelta(u, d.seller, d.buyer, d.amount)
                ELSE 0],
            DOMAIN ch)

\* Accounts, listings and chain agree: every mutation is applied in full
FullyApplied ==
    /\ \A u \in DOMAIN users : users[u].balance = LedgerBalance(chain, u)
    /\ \A id \in DOMAIN hist :
         /\ HasTransferBlock(id) <=> id \notin DOMAIN listings
         /\ HasTransferBlock(id) => HasIssuanceBlock(id)
         /\ HasIssuanceBlock(id) <=>
               (id \notin DOMAIN listings \/ listings[id].status = "verified")
    /\ \A id \in DOMAIN listings : id \in DOMAIN hist /\ listings[id].status # "pending"

(***************************************************************************)
(* C20: reads never observe a partial mutation.  In every state a read can *)
(* run in, accounts, listings and chain agree: no purchase shows with the  *)
(* seller debited but the buyer not credited, with the listing still       *)
(* stored, or without its transfer block, and no issuance block shows      *)
(* without the balance credit and the verified status; and what            *)
(* GET /api/blockchain, /api/marketplace and /api/user/:username reply is  *)
(* that state's chain, marketplace view and balance.                       *)
(***************************************************************************)
C20_ReadsSeeFullyAppliedState ==
    /\ FullyApplied
    /\ res.op = "blockchain" => res.data = chain
    /\ res.op = "marketplace" => res.data = getMarketplace(listings)
    /\ (res.op = "user" /\ res.status = 200) =>
          /\ res.data[1].username \in DOMAIN users
          /\ res.data[1].balance = users[res.data[1].username].balance
          /\ res.data[1].role = users[res.data[1].username].role
    /\ (res.op = "user" /\ res.status = 404) => res.data = <<>>

\* C20 witness: buyer1's account was read after it bought a listing of 2
\* credits: the credit, the seller's debit, the deletion and both blocks show
C20_Witness ==
    /\ res.op = "user" /\ res.status = 200
    /\ res.data[1].username = "buyer1" /\ res.data[1].balance = 2
    /\ users["seller1"].balance = 0
    /\ 1 \in DOMAIN hist /\ 1 \notin DOMAIN listings
    /\ HasTransferBlock(1) /\ HasIssuanceBlock(1)

(***************************************************************************)
(* Broadcasts (SyncSpec)                                                   *)
(***************************************************************************)
\* The messages msgs hold one of the given type with the given data
Carries(msgs, type, data) ==
    \E k \in DOMAIN msgs : msgs[k].type = type /\ msgs[k].data = data

\* The step sent msgs the chain, the marketplace view and the balance of each
\* of the accounts, all as they are after the step
ThreeProjections(msgs, accounts) ==
    /\ Carries(msgs, "blockchain_update", chain')
    /\ Carries(msgs, "marketplace_update", getMarketplace(listings'))
    /\ \A u \in accounts :
         Carries(msgs, "user_balance_update",
                 << [username |-> u, balance |-> users'[u].balance] >>)

(***************************************************************************)
(* C21: after every mutation (every issuance the gate decided, committed   *)
(* or aborted, and every successful purchase) each attached client is sent *)
(* the full chain, the marketplace view and a balance message for each     *)
(* affected account (the issuer; the buyer and the seller), all reflecting *)
(* the state after the mutation.  Stated for handlers none of whose sends  *)
(* throws.                                                                 *)
(***************************************************************************)
C21_MutationsBroadcast ==
    [][ /\ \A r \in SyncListRequests :
             ( /\ res'.op = "list" /\ res'.gate # NoGate
               /\ SyncListCredit(r[1], r[2], r[3], 0) ) =>
                \A c \in Range(clients) : ThreeProjections(outbox'[c], {r[1]})
        /\ \A b \in SyncBuyers, l \in 1..MaxListings :
             (PurchaseDone /\ SyncBuyCredit(b, l, 0)) =>
                \A c \in Range(clients) :
                   ThreeProjections(outbox'[c], {b, listings[l].seller})
      ]_vars

\* The step attached a client
Attached == Len(outbox') = Len(outbox) + 1 /\ Connect

(***************************************************************************)
(* C22: a newly attached client is at once sent a catch-up snapshot made   *)
(* of the same three projections a mutation's broadcast carries: the       *)
(* current chain, the current marketplace view and the balance projection; *)
(* these are the first messages it is sent.                                *)
(***************************************************************************)
C22_CatchUpSnapshot ==
    [][ Attached =>
          LET c == Len(outbox')
              msgs == outbox'[c]
          IN  /\ c \in Range(clients')
              /\ Len(msgs) >= 3
              /\ msgs[1] = ChainMessage(chain)
              /\ msgs[2] = MarketMessage(listings, chain)
              /\ \E k \in DOMAIN msgs : msgs[k].type = "user_balance_update"
      ]_vars

\* The accounts, listings and chain after the step, as the callback sees them
AfterStep == [chain |-> chain', users |-> users', listings |-> listings']

(***************************************************************************)
(* C23: delivery failure is isolated.  When the sends to one attached      *)
(* client throw during the broadcasts of a committed issuance or of a      *)
(* successful purchase, every other attached client is still sent all the  *)
(* messages of that mutation, the mutation stays applied (block, balances, *)
(* listing) and the caller still receives the success reply.               *)
(***************************************************************************)
C23_DeliveryFailureIsolated ==
    [][ /\ \A r \in SyncListRequests, f \in Range(clients) :
             ( /\ res'.op = "list" /\ res'.gate = "Committed"
               /\ SyncListCredit(r[1], r[2], r[3], f) ) =>
                /\ \A c \in Range(clients) \ {f} :
                      outbox'[c] = IssuanceMessages(users, AfterStep, r[1])
                /\ Len(chain') = Len(chain) + 1
                /\ BalanceMoved(r[1], r[2].v)
                /\ listings'[nextId].status = "verified"
                /\ res'.success /\ res'.status = 200 /\ res'.listingId = nextId
        /\ \A b \in SyncBuyers, l \in 1..MaxListings, f \in Range(clients) :
             ( /\ res'.op = "buy" /\ chain' # chain
               /\ SyncBuyCredit(b, l, f) ) =>
                /\ \A c \in Range(clients) \ {f} :
                      outbox'[c] = PurchaseMessages(users', listings', chain',
                                                    b, listings[l].seller)
                /\ Len(chain') = Len(chain) + 1
                /\ l \notin DOMAIN listings'
                /\ \A u \in DOMAIN users :
                      BalanceMoved(u, PurchaseDelta(u, listings[l].seller, b,
                                                    listings[l].amount))
                /\ res'.success /\ res'.status = 200
      ]_vars

\* The messages a step that is not a connection may send: those of the
\* mutation it commits, in the order chain, marketplace, balance(s); none if
\* it commits nothing
MutationMessages ==
    IF chain' = chain THEN <<>>
    ELSE LET d == chain'[Len(chain')].data IN
         IF d.type = "carbon_credit_listing"
         THEN << ChainMessage(chain'), MarketMessage(listings', chain'),
                 BalanceMessage(d.seller, users'[d.seller].balance, chain') >>
         ELSE << ChainMessage(chain'), MarketMessage(listings', chain'),
                 BalanceMessage(d.buyer, users'[d.buyer].balance, chain'),
                 BalanceMessage(d.seller, users'[d.seller].balance, chain') >>

(***************************************************************************)
(* C24: per-client send order is mutation commit order.  What a step sends *)
(* to a client is an initial part of the messages of the one mutation that *)
(* step commits, in the order chain, marketplace, balance message(s), and  *)
(* nothing of any other mutation; each mutation is committed by one step   *)
(* and its messages are numbered with its block, a number above that of    *)
(* every message sent before: the messages of a mutation committed earlier *)
(* are all sent before any message of a later one.                         *)
(***************************************************************************)
C24_SendOrder ==
    [][ \A c \in DOMAIN outbox' :
          /\ \A k \in DOMAIN outbox'[c] : outbox'[c][k].seq = Len(chain') - 1
          /\ ~Attached =>
               /\ IsPrefix(outbox'[c], MutationMessages)
               /\ outbox'[c] # <<>> => c \in Range(clients)
               /\ (outbox'[c] # <<>> /\ c \in DOMAIN outbox) =>
                     \A k \in DOMAIN outbox[c] : outbox[c][k].seq < Len(chain') - 1
      ]_vars

\* C24 witness: a client attached before a committed issuance (first
\* mutation) is sent the four messages of its purchase (second mutation)
C24_Witness ==
    /\ res.op = "buy" /\ res.success
    /\ \E c \in Range(clients) :
         /\ Len(outbox[c]) = 4
         /\ outbox[c][1].type = "blockchain_update"
         /\ outbox[c][2].type = "marketplace_update"
         /\ outbox[c][3].type = "user_balance_update"
         /\ outbox[c][4].type = "user_balance_update"
         /\ \A k \in 1..4 : outbox[c][k].seq = 2

(***************************************************************************)
(* C25: a gate abort is never surfaced as an error.  The reply to a        *)
(* list-credit request on which the gate decided is the same success reply *)
(* (200, success, the fixed message, the new listing's id) whether the     *)
(* outcome is Committed or Aborted; the outcome shows in the stored        *)
(* listing's status, the marketplace view, the issuer's balance and the    *)
(* chain only.                                                             *)
(***************************************************************************)
C25_AbortIsNotAnError ==
    (res.op = "list" /\ res.gate # NoGate) =>
        LET id == res.listingId IN
        /\ res.status = 200 /\ res.success
        /\ res.message = "Carbon credit listed and undergoing verification"
        /\ id = nextId - 1 /\ id \in DOMAIN listings /\ id \in DOMAIN hist
        /\ res.gate = hist[id].outcome
        /\ res.gate \in {"Committed", "Aborted"}
        /\ listings[id].status =
              (IF res.gate = "Committed" THEN "verified" ELSE "failed")
        /\ (\E k \in DOMAIN getMarketplace(listings) :
               getMarketplace(listings)[k].id = id) <=> res.gate = "Committed"
        /\ HasIssuanceBlock(id) <=> res.gate = "Committed"
        /\ hist[id].credits = (IF res.gate = "Committed" THEN 1 ELSE 0)

\* C25 witness: a second listing request was aborted after a first was
\* committed; the caller got the success reply with the id of a failed listing
C25_Witness ==
    /\ res.op = "list" /\ res.gate = "Aborted" /\ res.success
    /\ res.listingId = 2 /\ listings[2].status = "failed"
    /\ hist[1].outcome = "Committed"

\* The votes of the decision under way, in the order they were returned
VotesCast == [k \in DOMAIN gate.log |-> gate.log[k].vote]

\* The outcome that a sequence of votes alone determines: the first n are the
\* prepare votes, the rest the commit votes
DecisionOf(votes, n) ==
    IF YesAmong(votes, n) < Quorum THEN "Prepare phase failed"
    ELSE IF YesAmong(votes, Len(votes)) - YesAmong(votes, n) < Quorum
         THEN "Commit phase failed"
         ELSE "success"

C27_NoListingStaysPending ==
    /\ \A id \in DOMAIN listings : listings[id].status \in {"verified", "failed"}
    /\ (res.op = "list" /\ res.listingId \in DOMAIN listings)
          => listings[res.listingId].status \in {"verified", "failed"}

\* The callback is invoked by this step
Delivered == gate'.callbacks = gate.callbacks + 1

\* C28 (the decision is side-effect-free): no step of startConsensus, from the
\* pre-prepare to the return, changes an account, a listing, the chain or the
\* gate's prepareMessages and commitMessages; the outcome is delivered to the
\* caller exactly once per decision, at the step that finishes it, and
\* startConsensus returns only after that delivery.
C28_DecisionSideEffectFree ==
    [][ /\ UNCHANGED <<users, listings, chain, nextId>>
        /\ gate'.prepareMessages = gate.prepareMessages
        /\ gate'.commitMessages = gate.commitMessages
        /\ gate'.pc = "done"
              => IF gate.pc = "done" THEN gate' = gate
                 ELSE Delivered /\ gate.callbacks = 0
        /\ gate'.pc \in {"prepare", "commit"} => gate'.callbacks = 0
        /\ (gate.pc = "done" /\ gate'.pc = "idle") => gate.callbacks = 1
      ]_vars

\* C28 witness: a decision was committed and its outcome delivered once, with
\* accounts, listings and chain as they were before the gate was asked and
\* nothing stored in the gate
C28_Witness ==
    /\ gate.pc = "done" /\ gate.result = "success" /\ gate.callbacks = 1
    /\ Len(gate.log) = 2 * ValidatorCount
    /\ gate.prepareMessages = <<>> /\ gate.commitMessages = <<>>
    /\ listings = <<>> /\ chain = <<Genesis>>

\* C29 (illegal status transitions are rejected): in every database state the
\* handlers can produce, Database.verifyListing changes only a pending listing
\* (to verified, returning true); called for a failed or an already verified
\* listing, or for an unknown id, it changes nothing and returns false.
C29_VerifyRejectsIllegalTransitions ==
    \A id \in 1..(MaxListings + 1) :
       IF Has(listings, id) /\ listings[id].status = "pending"
       THEN /\ verifyListing(listings, id) = [listings EXCEPT ![id].status = "verified"]
            /\ verifyListingReturns(listings, id)
       ELSE /\ verifyListing(listings, id) = listings
            /\ ~verifyListingReturns(listings, id)

\* The balance messages among msgs, in the order sent
BalancesIn(msgs) == SelectSeq(msgs, LAMBDA m : m.type = "user_balance_update")

\* A balance message for account u with balance b
IsBalanceOf(m, u, b) == m.data = << [username |-> u, balance |-> b] >>

\* C30 (balance messages carry post-mutation balances): every balance message
\* a step sends belongs to the mutation that step commits and carries the
\* account's balance as it is after the step.  After a committed issuance the
\* only balance message is the issuer's, with its balance before the request
\* plus the quantity; after a purchase the first balance message is the
\* buyer's and the second the seller's, each with the balance before the
\* request changed by the quantity bought; and a client that was sent all
\* messages of the mutation got one for the issuer, or one for the buyer and
\* one for the seller.
C30_BalanceMessagesPostMutation ==
    [][ \A c \in DOMAIN outbox' :
          LET bs == BalancesIn(outbox'[c])
              d == chain'[Len(chain')].data
          IN  bs # <<>> =>
                /\ Len(chain') = Len(chain) + 1
                /\ \A k \in DOMAIN bs :
                      bs[k].data[1].balance = users'[bs[k].data[1].username].balance
                /\ IF d.type = "carbon_credit_listing"
                   THEN /\ Len(bs) = 1
                        /\ IsBalanceOf(bs[1], d.seller,
                                       users[d.seller].balance + d.amount)
                        /\ Len(outbox'[c]) = 3
                   ELSE /\ IsBalanceOf(bs[1], d.buyer, users[d.buyer].balance
                              + PurchaseDelta(d.buyer, d.seller, d.buyer, d.amount))
                        /\ Len(bs) = 2 =>
                              IsBalanceOf(bs[2], d.seller, users[d.seller].balance
                                + PurchaseDelta(d.seller, d.seller, d.buyer, d.amount))
                        /\ Len(outbox'[c]) = 2 + Len(bs)
                        /\ res'.success => Len(bs) = 2
      ]_vars

\* C30 witness: a client was sent the balance messages of a purchase by
\* another account than the seller: the buyer's raised balance first, then
\* the seller's lowered one
C30_Witness ==
    /\ res.op = "buy" /\ res.success
    /\ \E c \in Range(clients) :
         LET bs == BalancesIn(outbox[c]) IN
         /\ Len(bs) = 2
         /\ bs[1].data[1].username = "buyer1"
         /\ bs[1].data[1].balance = users["buyer1"].balance
         /\ bs[1].data[1].balance > 0
         /\ bs[2].data[1].username = "seller1"
         /\ bs[2].data[1].balance = users["seller1"].balance

\* A second reachable case of C30: the issuer of a committed issuance is sent
\* its balance raised by the quantity
IssuerBalanceSent ==
    /\ res.op = "list" /\ res.gate = "Committed" /\ res.success
    /\ \E c \in Range(clients) :
         LET bs == BalancesIn(outbox[c]) IN
         /\ Len(bs) = 1
         /\ bs[1].data[1].username = "seller1"
         /\ bs[1].data[1].balance = users["seller1"].balance
         /\ bs[1].data[1].balance >= 2

\* The payload of the block the step appended
Appended == chain'[Len(chain')].data

\* Every account but those in `touched` is as before, and the touched ones
\* keep their role and password
OnlyBalancesOf(touched) ==
    /\ DOMAIN users' = DOMAIN users
    /\ \A u \in DOMAIN users :
          /\ u \notin touched => users'[u] = users[u]
          /\ users'[u].role = users[u].role
          /\ users'[u].password = users[u].password

\* C31 (frame of purchase and issuance): a successful purchase changes the
\* balance of no account but the seller and the buyer and no account's role,
\* removes the purchased listing and leaves every other listing as it was; a
\* committed issuance changes the balance of no account but the issuer, adds
\* the new listing as verified and leaves every other listing as it was.
C31_Frame ==
    [][ /\ PurchaseDone =>
             /\ OnlyBalancesOf({Appended.seller, Appended.buyer})
             /\ Appended.listingId \in DOMAIN listings
             /\ DOMAIN listings' = DOMAIN listings \ {Appended.listingId}
             /\ \A id \in DOMAIN listings' : listings'[id] = listings[id]
        /\ IssueCommitted =>
             /\ OnlyBalancesOf({Appended.seller})
             /\ Appended.listingId \notin DOMAIN listings
             /\ DOMAIN listings' = DOMAIN listings \cup {Appended.listingId}
             /\ \A id \in DOMAIN listings : listings'[id] = listings[id]
             /\ listings'[Appended.listingId].status = "verified"
      ]_vars

\* C31 witness: listing 1 was bought while listing 2 was verified and a third
\* account was registered; listing 2 is still there and the third account has
\* the balance it was created with
C31_Witness ==
    /\ res.op = "buy" /\ res.success
    /\ 1 \notin DOMAIN listings
    /\ 2 \in DOMAIN listings /\ listings[2].status = "verified"
    /\ \E u \in DOMAIN users :
          /\ u \notin {chain[Len(chain)].data.seller, chain[Len(chain)].data.buyer}
          /\ users[u].balance = 0

\* The number of transfer blocks of the chain for listing id
TransferBlocks(id) ==
    Cardinality({k \in DOMAIN chain :
                    /\ chain[k].data.type = "carbon_credit_purchase"
                    /\ chain[k].data.listingId = id})

\* C32 (a listing is purchased at most once): in every state each listing id
\* has at most one successful purchase and as many transfer blocks, a
\* purchased listing is no longer stored, and purchaseCredit for a purchased
\* id, by whatever buyer, fails with "Listing not found" and changes nothing;
\* a step that is a successful purchase is the first one of its listing, and
\* a purchase request that fails changes no balance, no listing and no
\* block.
C32_PurchasedAtMostOnce ==
    /\ [](\A id \in DOMAIN hist :
            /\ hist[id].purchases <= 1
            /\ TransferBlocks(id) = hist[id].purchases
            /\ hist[id].purchases = 1 =>
                  /\ id \notin DOMAIN listings
                  /\ \A b \in DOMAIN users \cup ReqBuyers :
                        LET r == purchaseCredit(users, listings, b, id) IN
                        /\ ~r.success /\ r.message = "Listing not found"
                        /\ r.users = users /\ r.listings = listings)
    /\ [][ res'.op = "buy" =>
             IF res'.success
             THEN /\ hist[Appended.listingId].purchases = 0
                  /\ hist'[Appended.listingId].purchases = 1
                  /\ Len(chain') = Len(chain) + 1
             ELSE /\ users' = users /\ listings' = listings
                  /\ chain' = chain /\ hist' = hist
         ]_vars

\* C32 witness: listing 1 was purchased, and a later purchase request was
\* refused with "Listing not found" with the one transfer block in the chain
C32_Witness ==
    /\ 1 \in DOMAIN hist /\ hist[1].purchases = 1
    /\ res.op = "buy" /\ ~res.success /\ res.message = "Listing not found"
    /\ TransferBlocks(1) = 1
    /\ 1 \notin DOMAIN listings

\* C33 (self-purchase): in every state the seller of a verified listing can
\* buy it: purchaseCredit does not look at the buyer's role and succeeds; and
\* every successful purchase whose buyer is the listing's seller leaves every
\* balance as it was, deletes the listing and appends exactly one transfer
\* block that names the same account as buyer and as seller.
C33_SelfPurchase ==
    /\ [](\A l \in DOMAIN listings :
            listings[l].status = "verified" =>
              LET S == listings[l].seller
                  r == purchaseCredit(users, listings, S, l)
              IN  /\ users[S].role = "seller"
                  /\ r.success /\ r.seller = S
                  /\ r.users[S].balance = users[S].balance
                  /\ l \notin DOMAIN r.listings)
    /\ [][ (PurchaseDone /\ Appended.buyer = Appended.seller) =>
             LET l == Appended.listingId IN
             /\ l \in DOMAIN listings /\ listings[l].seller = Appended.seller
             /\ users' = users
             /\ l \notin DOMAIN listings'
             /\ Len(chain') = Len(chain) + 1
             /\ SubSeq(chain', 1, Len(chain)) = chain
             /\ Appended.type = "carbon_credit_purchase"
             /\ Appended.amount = listings[l].amount
             /\ res'.status = 200
         ]_vars

\* C33 witness: seller2 bought its own listing of 2 credits: the transfer
\* block names seller2 twice and seller2 still holds the 2 credits
C33_Witness ==
    /\ res.op = "buy" /\ res.success
    /\ chain[Len(chain)].data.type = "carbon_credit_purchase"
    /\ chain[Len(chain)].data.buyer = "seller2"
    /\ chain[Len(chain)].data.seller = "seller2"
    /\ users["seller2"].balance = 2
    /\ chain[Len(chain)].data.listingId \notin DOMAIN listings

\* The sum of the quantities of the stored listings of seller u that are
\* verified: issued, committed and not yet purchased
OwnVerified(u) ==
    SumOver([id \in DOMAIN listings |->
                IF listings[id].seller = u /\ listings[id].status = "verified"
                THEN listings[id].amount ELSE 0],
            DOMAIN listings)

\* The sum of the quantities of the listings account u has purchased
Purchased(u) ==
    SumOver([id \in DOMAIN hist |->
                IF hist[id].purchases >= 1 /\ hist[id].buyer = u
                THEN hist[id].quantity ELSE 0],
            DOMAIN hist)

\* C34 (balance decomposition): in every reachable state the balance of each
\* account is the sum of the quantities of its own verified listings plus the
\* sum of the quantities of the listings it has purchased, and nothing else;
\* an account that never issued and never purchased has balance 0.
C34_BalanceDecomposition ==
    \A u \in DOMAIN users :
       /\ users[u].balance = OwnVerified(u) + Purchased(u)
       /\ ((\A id \in DOMAIN hist : hist[id].issuer # u /\ hist[id].buyer # u)
             => users[u].balance = 0)

\* C34 witness: seller2 holds 4 credits, 2 in its own verified listing and 2
\* bought from seller1, whose balance is back at 0
C34_Witness ==
    /\ "seller2" \in DOMAIN users /\ users["seller2"].balance = 4
    /\ OwnVerified("seller2") = 2 /\ Purchased("seller2") = 2
    /\ users["seller1"].balance = 0
    /\ \E id \in DOMAIN hist : hist[id].issuer = "seller1" /\ hist[id].purchases = 1

\* The positions in the chain of the blocks of the given type for listing id
BlocksFor(type, id) ==
    {k \in DOMAIN chain : chain[k].data.type = type /\ chain[k].data.listingId = id}

\* The ids of the listings in the marketplace view
MarketIds ==
    {getMarketplace(listings)[k].id : k \in DOMAIN getMarketplace(listings)}

\* C35 (ledger and settlement agree): in every reachable state each listing id
\* has at most one issuance block and at most one transfer block; a listing is
\* in the marketplace exactly when its issuance block exists and its transfer
\* block does not; and every transfer block comes after the issuance block of
\* the same listing id and carries that block's seller, quantity and unit
\* price.
C35_LedgerSettlementConsistency ==
    /\ \A id \in 1..(MaxListings + 1) :
          LET I == BlocksFor("carbon_credit_listing", id)
              T == BlocksFor("carbon_credit_purchase", id)
          IN  /\ Cardinality(I) <= 1 /\ Cardinality(T) <= 1
              /\ id \in MarketIds <=> (I # {} /\ T = {})
              /\ \A t \in T :
                    \E i \in I :
                       /\ i < t
                       /\ chain[t].data.seller = chain[i].data.seller
                       /\ chain[t].data.amount = chain[i].data.amount
                       /\ chain[t].data.price = chain[i].data.price
    /\ \A k \in DOMAIN chain :
          chain[k].data.type # "genesis" => chain[k].data.listingId \in DOMAIN hist

\* C35 witness: listing 1 has its issuance block and, after it, its transfer
\* block and is out of the marketplace; listing 2 has only its issuance block
\* and is in the marketplace
C35_Witness ==
    /\ Cardinality(BlocksFor("carbon_credit_listing", 1)) = 1
    /\ Cardinality(BlocksFor("carbon_credit_purchase", 1)) = 1
    /\ BlocksFor("carbon_credit_listing", 2) # {}
    /\ BlocksFor("carbon_credit_purchase", 2) = {}
    /\ MarketIds = {2}
    /\ Len(chain) = 4

(***************************************************************************)
(* POST /api/list-credit step by step (StepSpec).  The handler has no      *)
(* await and startConsensus calls its callback before it returns, so the   *)
(* statements of one request run to completion before the event loop takes *)
(* the next event: while pc is not "idle" only the handler's own steps are *)
(* enabled.  Every send succeeds here.                                     *)
(***************************************************************************)
\* The reply slot while the handler has not answered yet
NoReplyYet(id) == Reply("list", 0, FALSE, "", id, NoGate)

\* The votes Math.random may produce for the i-th node, sampled as in
\* VoteSamples: the first `required - 1` or the first `required` nodes vote YES
SampleVote(i) == {i <= required - 1, i <= required}

\* server.js 105-119: the field and role checks, then database.createListing
ListBegin(username, amount, price) ==
    /\ pc = "idle"
    /\ outbox' = Silent(outbox)
    /\ IF ListFieldsMissing(version, username, amount, price)
       THEN /\ res' = Reply("list", 400, FALSE, "All fields are required", 0, NoGate)
            /\ UNCHANGED <<pc, users, listings, chain, nextId, hist>>
       ELSE IF NotASeller(users, username)
       THEN /\ res' = Reply("list", 400, FALSE, "Invalid user or not a seller", 0, NoGate)
            /\ UNCHANGED <<pc, users, listings, chain, nextId, hist>>
       ELSE /\ nextId <= MaxListings
            /\ LET listing == createListing(nextId, username, amount, price) IN
               /\ listings' = MapSet(listings, listing.id, listing)
               /\ hist' = MapSet(hist, listing.id,
                            [issuer |-> username, quantity |-> listing.amount,
                             unitPrice |-> listing.price, outcome |-> "Undecided",
                             credits |-> 0, purchases |-> 0, buyer |-> ""])
               /\ res' = NoReplyYet(listing.id)
            /\ nextId' = nextId + 1
            /\ pc' = "consensus"
            /\ UNCHANGED <<users, chain>>
    /\ UNCHANGED <<version, gate, clients, frontend>>

\* The callback's state changes (server.js 123-139 or 157-164), run by
\* startConsensus with the gate's result
CallbackApply ==
    /\ pc = "consensus"
    /\ gate.pc = "done"
    /\ LET id == res.listingId
           listing == listings[id]
           result == [success |-> gate.result = "success", error |-> gate.result]
           after == consensusCallback(result, users, listings, chain, listing,
                                      listing.seller, Num(listing.amount),
                                      Num(listing.price))
       IN  /\ users' = after.users
           /\ listings' = after.listings
           /\ chain' = after.chain
           /\ hist' = [hist EXCEPT ![id].outcome = Outcome(result),
                                   ![id].credits = IF result.success THEN 1 ELSE 0]
           /\ pc' = IF result.success THEN "applied" ELSE "calledback"
    /\ UNCHANGED <<version, nextId, res, gate, clients, outbox, frontend>>

\* The callback's three broadcasts (server.js 141-154)
CallbackBroadcast ==
    /\ pc = "applied"
    /\ LET id == res.listingId
           now == [users |-> users, listings |-> listings, chain |-> chain]
           sent == broadcastEach(clients, outbox,
                                 IssuanceMessages(users, now, hist[id].issuer),
                                 0, version)
       IN  outbox' = sent.outbox
    /\ pc' = "calledback"
    /\ UNCHANGED <<version, users, listings, chain, nextId, res, hist, gate,
                   clients, frontend>>

\* Mutant of ConsensusReturns: startConsensus returns before it has called
\* the callback, which is left for a later turn of the event loop
ConsensusReturnsEarly ==
    /\ pc = "consensus"
    /\ gate.pc = "done"
    /\ gate' = Returned(gate)
    /\ pc' = "returned"
    /\ UNCHANGED <<version, users, listings, chain, nextId, res, hist, clients,
                   outbox, frontend>>

\* The callback has returned and startConsensus returns to the handler
ConsensusReturns ==
    /\ pc = "calledback"
    /\ gate.pc = "done"
    /\ gate' = Returned(gate)
    /\ pc' = "returned"
    /\ UNCHANGED <<version, users, listings, chain, nextId, res, hist, clients,
                   outbox, frontend>>

\* res.json({success: true, ..., listingId}) (server.js 167-171)
Acknowledge ==
    /\ pc = "returned"
    /\ res' = Reply("list", 200, TRUE,
                    "Carbon credit listed and undergoing verification",
                    res.listingId, hist[res.listingId].outcome)
    /\ pc' = "idle"
    /\ UNCHANGED <<version, users, listings, chain, nextId, hist, gate, clients,
                   outbox, frontend>>

StepNext ==
    \/ \E r \in SyncListRequests : ListBegin(r[1], r[2], r[3])
    \/ pc = "consensus" /\ GateStart(res.listingId)
    \/ \E v \in SampleVote(gate.i + 1) : PrepareVote(v)
    \/ PrepareTally
    \/ \E v \in SampleVote(gate.i + 1) : CommitVote(v)
    \/ CommitTally
    \/ CallbackApply
    \/ CallbackBroadcast
    \/ ConsensusReturns
    \/ Acknowledge
    \/ pc = "idle" /\ Connect
    \/ pc = "idle" /\ \E c \in 1..MaxClients : Disconnect(c)
    \/ pc = "idle" /\ \E b \in SyncBuyers, l \in 1..MaxListings : SyncBuyCredit(b, l, 0)

StepSpec == Init /\ [][StepNext]_vars

\* The order in which the handler passes its positions
HandlerOrder ==
    { <<"idle", "consensus">>, <<"consensus", "applied">>,
      <<"consensus", "calledback">>, <<"applied", "calledback">>,
      <<"calledback", "returned">>, <<"returned", "idle">> }

\* The step sends the acknowledgement of an accepted list-credit request
Acknowledged == pc = "returned" /\ pc' = "idle"

\* C36 (acknowledgement ordering of issueListing): the handler of an accepted
\* list-credit request goes through listing creation, the gate's decision,
\* the state change, the broadcasts and the return of startConsensus in that
\* order; when the acknowledgement with the listing id is sent the gate has
\* decided on that listing and returned, the listing is verified with its
\* block appended and its issuer credited and every attached client has been
\* sent the chain, the marketplace and the balance, or the listing is failed
\* and nothing was sent; and from the creation of the listing to the
\* acknowledgement no other request runs: no client attaches or detaches, no
\* other listing and no other account changes and no other listing is created.
C36_AcknowledgementOrdering ==
    /\ [](/\ pc \in {"applied", "calledback"} => gate.pc = "done"
          /\ pc = "returned" => gate.pc = "idle" /\ gate.prev.tx = res.listingId
          /\ pc # "idle" => res = NoReplyYet(res.listingId)
                            /\ res.listingId \in DOMAIN listings)
    /\ [][ /\ pc' # pc => <<pc, pc'>> \in HandlerOrder
           /\ (pc = "consensus" /\ pc' = "applied") =>
                 /\ users'[hist[res.listingId].issuer].balance =
                      users[hist[res.listingId].issuer].balance
                        + hist[res.listingId].quantity
                 /\ Len(chain') = Len(chain) + 1
           /\ Acknowledged =>
                 LET id == res'.listingId IN
                 /\ res'.status = 200 /\ res'.success /\ id = res.listingId
                 /\ gate.prev.tx = id
                 /\ hist[id].outcome \in {"Committed", "Aborted"}
                 /\ (hist[id].outcome = "Committed") = (gate.prev.result = "success")
                 /\ UNCHANGED <<users, listings, chain, outbox, clients>>
                 /\ IF hist[id].outcome = "Committed"
                    THEN /\ listings[id].status = "verified"
                         /\ chain[Len(chain)].data.type = "carbon_credit_listing"
                         /\ chain[Len(chain)].data.listingId = id
                         /\ \A c \in Range(clients) :
                               outbox[c] =
                                 << ChainMessage(chain),
                                    MarketMessage(listings, chain),
                                    BalanceMessage(hist[id].issuer,
                                       users[hist[id].issuer].balance, chain) >>
                    ELSE /\ listings[id].status = "failed"
                         /\ \A c \in DOMAIN outbox : outbox[c] = <<>>
           /\ (pc # "idle" /\ pc' # "idle") =>
                 /\ res' = res
           /\ pc # "idle" =>
                 /\ clients' = clients /\ nextId' = nextId
                 /\ DOMAIN listings' = DOMAIN listings
                 /\ DOMAIN users' = DOMAIN users
                 /\ \A i \in DOMAIN listings \ {res.listingId} :
                       listings'[i] = listings[i]
                 /\ \A u \in DOMAIN users \ {hist[res.listingId].issuer} :
                       users'[u] = users[u]
         ]_vars

\* C36 witness: a committed list-credit request has just been acknowledged
\* with its listing id, and the attached client holds the three messages
\* that were sent before
C36_Witness ==
    /\ pc = "idle" /\ res.op = "list" /\ res.status = 200
    /\ res.listingId = 2 /\ res.gate = "Committed"
    /\ listings[2].status = "verified"
    /\ gate.prev.tx = 2
    /\ \E c \in Range(clients) : Len(outbox[c]) = 3

(***************************************************************************)
(* The browser client's WebSocket (frontend/app.js, ClientSpec).  One      *)
(* socket or one pending timer exists at a time: connectWebSocket is       *)
(* called once when the page has loaded and afterwards only by the timer   *)
(* that the socket's onclose sets.  Time passes in steps of one second.    *)
(***************************************************************************)
\* The successful opens followed: a cap on the history counter
MaxOpens == 2

maxReconnectAttempts == 5

\* Math.min(1000 * Math.pow(2, reconnectAttempts), 30000)
reconnectDelay(attempts) ==
    IF 1000 * 2^attempts < 30000 THEN 1000 * 2^attempts ELSE 30000

\* window.onload: the first connectWebSocket()
PageLoads ==
    /\ frontend = PageLoaded
    /\ frontend' = [frontend EXCEPT !.ws = "connecting"]
    /\ UNCHANGED <<version, users, listings, chain, nextId, res, hist, gate,
                   clients, outbox, pc>>

\* ws.onopen
OnOpen ==
    /\ frontend.ws = "connecting"
    /\ frontend.opens < MaxOpens
    /\ frontend' = [frontend EXCEPT !.ws = "open", !.reconnectAttempts = 0,
                                    !.opens = @ + 1, !.sinceOpen = 0]
    /\ UNCHANGED <<version, users, listings, chain, nextId, res, hist, gate,
                   clients, outbox, pc>>

\* Mutant of OnClose: a reconnect is scheduled whatever the counter says
OnCloseAlwaysReconnects ==
    /\ frontend.ws \in {"connecting", "open"}
    /\ frontend' = [frontend EXCEPT
                      !.ws = "closed",
                      !.delay = reconnectDelay(frontend.reconnectAttempts),
                      !.elapsed = 0,
                      !.reconnectAttempts = @ + 1,
                      !.sinceOpen = @ + 1]
    /\ UNCHANGED <<version, users, listings, chain, nextId, res, hist, gate,
                   clients, outbox, pc>>

\* ws.onclose, of an open socket or of one that failed to connect
OnClose ==
    /\ frontend.ws \in {"connecting", "open"}
    /\ frontend' = IF frontend.reconnectAttempts < maxReconnectAttempts
                   THEN [frontend EXCEPT
                           !.ws = "closed",
                           !.delay = reconnectDelay(frontend.reconnectAttempts),
                           !.elapsed = 0,
                           !.reconnectAttempts = @ + 1,
                           !.sinceOpen = @ + 1]
                   ELSE [frontend EXCEPT !.ws = "closed"]
    /\ UNCHANGED <<version, users, listings, chain, nextId, res, hist, gate,
                   clients, outbox, pc>>

\* One second passes while the timer is pending
Tick ==
    /\ frontend.delay > 0
    /\ frontend.elapsed < frontend.delay
    /\ frontend' = [frontend EXCEPT !.elapsed = @ + 1000]
    /\ UNCHANGED <<version, users, listings, chain, nextId, res, hist, gate,
                   clients, outbox, pc>>

\* The timer set by onclose fires: connectWebSocket()
TimerFires ==
    /\ frontend.delay > 0
    /\ frontend.elapsed >= frontend.delay
    /\ frontend' = [frontend EXCEPT !.ws = "connecting", !.delay = 0, !.elapsed = 0]
    /\ UNCHANGED <<version, users, listings, chain, nextId, res, hist, gate,
                   clients, outbox, pc>>

ClientNext == PageLoads \/ OnOpen \/ OnClose \/ Tick \/ TimerFires

ClientSpec == Init /\ [][ClientNext]_vars

\* The client has given up: its socket is closed and no timer is pending
GaveUp == frontend.ws = "closed" /\ frontend.delay = 0

\* The step schedules a reconnect
Scheduled == frontend.delay = 0 /\ frontend'.delay > 0

\* C37 (bounded reconnection): a reconnect is scheduled only by the close of
\* a socket and only while reconnectAttempts < 5; scheduling raises the
\* counter by one and every successful open sets it to 0, so the counter is
\* the number of reconnects scheduled since the last open and never exceeds
\* 5; the reconnect scheduled with the counter at k (k = 0..4) starts exactly
\* min(1000 * 2^k, 30000) ms after the close; and once a close has found the
\* counter at 5 the client never connects again.
C37_BoundedReconnect ==
    /\ [](/\ frontend.reconnectAttempts \in 0..maxReconnectAttempts
          /\ frontend.sinceOpen = frontend.reconnectAttempts
          /\ frontend.delay > 0 =>
                /\ frontend.ws = "closed"
                /\ frontend.reconnectAttempts >= 1
                /\ frontend.delay = reconnectDelay(frontend.reconnectAttempts - 1)
                /\ frontend.delay \in {1000, 2000, 4000, 8000, 16000}
                /\ frontend.elapsed <= frontend.delay
          /\ GaveUp => frontend.reconnectAttempts = maxReconnectAttempts)
    /\ [][ /\ Scheduled =>
                /\ frontend.ws \in {"connecting", "open"} /\ frontend'.ws = "closed"
                /\ frontend.reconnectAttempts < 5
                /\ frontend'.reconnectAttempts = frontend.reconnectAttempts + 1
                /\ frontend'.delay = reconnectDelay(frontend.reconnectAttempts)
           /\ (frontend.ws # "closed" /\ frontend'.ws = "closed" /\ ~Scheduled) =>
                frontend.reconnectAttempts = 5
           /\ (frontend.ws # "open" /\ frontend'.ws = "open") =>
                frontend'.reconnectAttempts = 0
           /\ (frontend.ws = "closed" /\ frontend'.ws = "connecting") =>
                /\ frontend.delay > 0 /\ frontend.elapsed = frontend.delay
           /\ frontend'.reconnectAttempts # frontend.reconnectAttempts =>
                \/ Scheduled
                \/ frontend'.ws = "open" /\ frontend'.reconnectAttempts = 0
           /\ GaveUp => frontend' = frontend
         ]_vars

\* C37 witness: after a successful open the connection was lost and five
\* reconnects in a row failed; the last was delayed 16000 ms and the client
\* has given up
C37_Witness ==
    /\ GaveUp
    /\ frontend.opens >= 1
    /\ frontend.reconnectAttempts = 5 /\ frontend.sinceOpen = 5

=============================================================================
